---------------------------- MODULE Spec2Model ----------------------------
(***************************************************************************)
(* A model of the document engine of xcoder-cli: the TaskFlowTextManager   *)
(* class of src/TaskFlowTextManager.py.  The manager holds the project     *)
(* metadata, an insertion-ordered dictionary of files, an insertion-       *)
(* ordered dictionary of functions and a config blob; it parses them from  *)
(* a text document, mutates them, validates them and writes them back.     *)
(*                                                                         *)
(* Text is modelled by TLA+ strings, character by character: the string    *)
(* operations of the Python code (strip, split, startswith, the regular    *)
(* expressions, int and str) are operators over the characters.            *)
(***************************************************************************)
EXTENDS Integers, Sequences, FiniteSets, TLC

(***************************************************************************)
(* Python's string operations.                                             *)
(***************************************************************************)

\* s[i-1] of Python, as a one-character string ("" past the end).
CharAt(s, i) == IF 1 <= i /\ i <= Len(s) THEN SubSeq(s, i, i) ELSE ""

\* s[a-1:b] of Python: the characters of s at positions a..b, cut to s.
Slice(s, a, b) ==
    LET lo == IF a < 1 THEN 1 ELSE a
        hi == IF b > Len(s) THEN Len(s) ELSE b
    IN  IF lo > hi THEN "" ELSE SubSeq(s, lo, hi)

\* s.startswith(p)
StartsWith(s, p) == Len(s) >= Len(p) /\ Slice(s, 1, Len(p)) = p

\* The characters str.strip() removes (those of them the model's texts use).
Whitespace == {" ", "\t", "\n", "\r"}

Digits == {"0", "1", "2", "3", "4", "5", "6", "7", "8", "9"}

RECURSIVE LStrip(_)
LStrip(s) ==
    IF Len(s) > 0 /\ CharAt(s, 1) \in Whitespace
    THEN LStrip(SubSeq(s, 2, Len(s)))
    ELSE s

RECURSIVE RStrip(_)
RStrip(s) ==
    IF Len(s) > 0 /\ CharAt(s, Len(s)) \in Whitespace
    THEN RStrip(SubSeq(s, 1, Len(s) - 1))
    ELSE s

\* s.strip()
Strip(s) == RStrip(LStrip(s))

\* s.find(c) + 1 for a one-character c: the first position of c in s, 0 if none.
RECURSIVE FindFrom(_, _, _)
FindFrom(s, c, i) ==
    IF i > Len(s) THEN 0
    ELSE IF CharAt(s, i) = c THEN i
    ELSE FindFrom(s, c, i + 1)

Find(s, c) == FindFrom(s, c, 1)

\* s.split(sep): the pieces of s between the occurrences of the character sep.
RECURSIVE Split(_, _)
Split(s, sep) ==
    LET k == Find(s, sep)
    IN  IF k = 0 THEN <<s>>
        ELSE <<SubSeq(s, 1, k - 1)>> \o Split(SubSeq(s, k + 1, Len(s)), sep)

\* s.split(sep, 1): at most two pieces, cut at the first sep.
Split1(s, sep) ==
    LET k == Find(s, sep)
    IN  IF k = 0 THEN <<s>>
        ELSE <<SubSeq(s, 1, k - 1), SubSeq(s, k + 1, Len(s))>>

\* '\n'.join(lines)
RECURSIVE Join(_)
Join(lines) ==
    IF Len(lines) = 0 THEN ""
    ELSE IF Len(lines) = 1 THEN lines[1]
    ELSE lines[1] \o "\n" \o Join(Tail(lines))

\* The length of the run of digits that s has from position i on.
RECURSIVE DigitRun(_, _)
DigitRun(s, i) ==
    IF i <= Len(s) /\ CharAt(s, i) \in Digits
    THEN 1 + DigitRun(s, i + 1)
    ELSE 0

DigitValue(c) ==
    CASE c = "0" -> 0 [] c = "1" -> 1 [] c = "2" -> 2 [] c = "3" -> 3
      [] c = "4" -> 4 [] c = "5" -> 5 [] c = "6" -> 6 [] c = "7" -> 7
      [] c = "8" -> 8 [] c = "9" -> 9

DigitChar(d) ==
    CASE d = 0 -> "0" [] d = 1 -> "1" [] d = 2 -> "2" [] d = 3 -> "3"
      [] d = 4 -> "4" [] d = 5 -> "5" [] d = 6 -> "6" [] d = 7 -> "7"
      [] d = 8 -> "8" [] d = 9 -> "9"

\* int(s) for a non-empty string of digits (leading zeros allowed).
RECURSIVE ToInt(_)
ToInt(s) ==
    IF Len(s) = 0 THEN 0
    ELSE 10 * ToInt(SubSeq(s, 1, Len(s) - 1)) + DigitValue(CharAt(s, Len(s)))

\* str(n) for n >= 0.
RECURSIVE ToStr(_)
ToStr(n) ==
    IF n < 10 THEN DigitChar(n)
    ELSE ToStr(n \div 10) \o DigitChar(n % 10)

\* s.replace('F', '')
RECURSIVE RemoveF(_)
RemoveF(s) ==
    IF Len(s) = 0 THEN ""
    ELSE (IF CharAt(s, 1) = "F" THEN "" ELSE CharAt(s, 1))
            \o RemoveF(SubSeq(s, 2, Len(s)))

\* re.match(r'^\d+\.', line)
MatchFileLine(line) ==
    LET k == DigitRun(line, 1)
    IN  k >= 1 /\ CharAt(line, k + 1) = "."

\* re.match(r'^\d+F\.', line)
MatchFunctionHeader(line) ==
    LET k == DigitRun(line, 1)
    IN  k >= 1 /\ CharAt(line, k + 1) = "F" /\ CharAt(line, k + 2) = "."

\* [int(ref) for ref in re.findall(r'File (\d+)', line)], scanning from i.
RECURSIVE FindFileRefs(_, _)
FindFileRefs(line, i) ==
    IF i > Len(line) THEN <<>>
    ELSE LET k == DigitRun(line, i + 5)
         IN  IF Slice(line, i, i + 4) = "File " /\ k >= 1
             THEN <<ToInt(Slice(line, i + 5, i + 4 + k))>>
                      \o FindFileRefs(line, i + 5 + k)
             ELSE FindFileRefs(line, i + 1)

(***************************************************************************)
(* Python's dict: the entries in insertion order.  Assigning to a key that *)
(* is present replaces the value in place; a new key is appended.          *)
(***************************************************************************)

DictKeys(d) == {d[i].key : i \in 1..Len(d)}

\* list(d.keys()): the keys in insertion order.
DictKeyList(d) == [i \in 1..Len(d) |-> d[i].key]

\* list(d.values()): the values in insertion order.
DictValues(d) == [i \in 1..Len(d) |-> d[i].val]

\* k in d
DictHas(d, k) == \E i \in 1..Len(d) : d[i].key = k

\* d[k], for k in d
DictGet(d, k) == d[CHOOSE i \in 1..Len(d) : d[i].key = k].val

\* d[k] = v
DictSet(d, k, v) ==
    IF DictHas(d, k)
    THEN [i \in 1..Len(d) |-> IF d[i].key = k THEN [key |-> k, val |-> v] ELSE d[i]]
    ELSE Append(d, [key |-> k, val |-> v])

\* del d[k]
DictDel(d, k) == SelectSeq(d, LAMBDA e : e.key # k)

\* max(xs) for a non-empty set of integers.
Max(xs) == CHOOSE x \in xs : \A y \in xs : y <= x

\* sorted(...): a stable sort of entries [rank, key] by rank; entries of equal
\* rank keep their order.
RECURSIVE InsertSorted(_, _)
InsertSorted(sorted, e) ==
    IF Len(sorted) = 0 THEN <<e>>
    ELSE IF e.rank < sorted[1].rank THEN <<e>> \o sorted
    ELSE <<sorted[1]>> \o InsertSorted(Tail(sorted), e)

RECURSIVE SortedByRank(_)
SortedByRank(entries) ==
    IF Len(entries) = 0 THEN <<>>
    ELSE InsertSorted(SortedByRank(SubSeq(entries, 1, Len(entries) - 1)),
                      entries[Len(entries)])

(***************************************************************************)
(* The data model.  A manager is the record of the fields of a             *)
(* TaskFlowTextManager; files and functions are dicts.                     *)
(***************************************************************************)

\* ProjectFile(index, path, description)
ProjectFile(index, path, description) ==
    [index |-> index, path |-> path, description |-> description]

\* Function(id=, name=, description=, implementation=, files_involved=)
Function(id, name, description, implementation, files_involved) ==
    [id |-> id, name |-> name, description |-> description,
     implementation |-> implementation, files_involved |-> files_involved]

\* The fields __init__ sets.
EmptyManager ==
    [project_name |-> "", project_description |-> "", technology |-> "",
     files |-> <<>>, functions |-> <<>>, config_section |-> ""]

(***************************************************************************)
(* _parse_content.  The scanner's state is the manager being filled, the   *)
(* sticky current_section ("none" for None) and current_function: <<>> for *)
(* None, or a one-element sequence holding the record being accumulated.   *)
(***************************************************************************)

\* self.functions[current_function['id']] = Function(...)
CommitFunction(m, cur) ==
    [m EXCEPT !.functions =
        DictSet(@, cur.id,
                Function(cur.id, cur.name, cur.description,
                         Join(cur.implementation), cur.files))]

\* The branch of the loop that starts a function record, committing the one
\* being accumulated first.
StartFunction(st, line) ==
    LET parts == Split1(line, ".")
        saved == IF st.current_function # <<>>
                 THEN CommitFunction(st.m, st.current_function[1])
                 ELSE st.m
    IN  [st EXCEPT !.m = saved,
                   !.current_function =
                       <<[id |-> Strip(parts[1]), name |-> Strip(parts[2]),
                          description |-> "", implementation |-> <<>>,
                          files |-> <<>>]>>]

\* A faulty variant of FunctionLine: a reference the function already lists is
\* not added again.
FunctionLineDeduplicated(cur, line) ==
    IF cur.description = "" /\ ~StartsWith(line, "Implementation:")
    THEN [cur EXCEPT !.description = line]
    ELSE IF StartsWith(line, "Implementation:")
    THEN cur
    ELSE IF StartsWith(line, "File ")
    THEN [cur EXCEPT !.files =
                         @ \o SelectSeq(FindFileRefs(line, 1),
                                        LAMBDA x : \A j \in 1..Len(@) : @[j] # x),
                     !.implementation = Append(@, line)]
    ELSE [cur EXCEPT !.implementation = Append(@, line)]

\* The branch of the loop that feeds a line to the function being accumulated.
FunctionLine(cur, line) ==
    IF cur.description = "" /\ ~StartsWith(line, "Implementation:")
    THEN [cur EXCEPT !.description = line]
    ELSE IF StartsWith(line, "Implementation:")
    THEN cur
    ELSE IF StartsWith(line, "File ")
    THEN [cur EXCEPT !.files = @ \o FindFileRefs(line, 1),
                     !.implementation = Append(@, line)]
    ELSE [cur EXCEPT !.implementation = Append(@, line)]

\* The files branch: a line of the files section.
FileLine(m, line) ==
    IF MatchFileLine(line)
    THEN LET parts == Split1(line, ".")
         IN  IF Len(parts) = 2
             THEN [m EXCEPT !.files =
                      DictSet(@, ToInt(parts[1]),
                              ProjectFile(ToInt(parts[1]), Strip(parts[2]), ""))]
             ELSE m
    ELSE m

\* A faulty variant of ParseLine: the header lines tested at the end of the
\* chain, after the section branches.
ParseLineHeadersLast(st, raw) ==
    LET line == Strip(raw)
    IN  IF line = "PROJECT FILES INDEX:"
        THEN [st EXCEPT !.current_section = "files"]
        ELSE IF st.current_section = "files" /\ line # ""
                /\ ~StartsWith(line, "All functions:")
        THEN [st EXCEPT !.m = FileLine(@, line)]
        ELSE IF line = "All functions:"
        THEN [st EXCEPT !.current_section = "functions"]
        ELSE IF st.current_section = "functions" /\ MatchFunctionHeader(line)
        THEN StartFunction(st, line)
        ELSE IF st.current_function # <<>> /\ line # ""
                /\ ~MatchFunctionHeader(line)
        THEN [st EXCEPT !.current_function = <<FunctionLine(@[1], line)>>]
        ELSE IF StartsWith(line, "key projct configuration:")
        THEN [st EXCEPT !.current_section = "config",
                        !.m.config_section = line \o "\n"]
        ELSE IF st.current_section = "config"
        THEN [st EXCEPT !.m.config_section = @ \o line \o "\n"]
        ELSE IF StartsWith(line, "Project:")
        THEN [st EXCEPT !.m.project_name = Strip(Split1(line, ":")[2])]
        ELSE IF StartsWith(line, "Description:")
        THEN [st EXCEPT !.m.project_description = Strip(Split1(line, ":")[2])]
        ELSE IF StartsWith(line, "technology:")
        THEN [st EXCEPT !.m.technology = Strip(Split1(line, ":")[2])]
        ELSE st

\* One iteration of the while loop: the if/elif chain on the stripped line.
ParseLine(st, raw) ==
    LET line == Strip(raw)
    IN  IF StartsWith(line, "Project:")
        THEN [st EXCEPT !.m.project_name = Strip(Split1(line, ":")[2])]
        ELSE IF StartsWith(line, "Description:")
        THEN [st EXCEPT !.m.project_description = Strip(Split1(line, ":")[2])]
        ELSE IF StartsWith(line, "technology:")
        THEN [st EXCEPT !.m.technology = Strip(Split1(line, ":")[2])]
        ELSE IF line = "PROJECT FILES INDEX:"
        THEN [st EXCEPT !.current_section = "files"]
        ELSE IF st.current_section = "files" /\ line # ""
                /\ ~StartsWith(line, "All functions:")
        THEN [st EXCEPT !.m = FileLine(@, line)]
        ELSE IF line = "All functions:"
        THEN [st EXCEPT !.current_section = "functions"]
        ELSE IF st.current_section = "functions" /\ MatchFunctionHeader(line)
        THEN StartFunction(st, line)
        ELSE IF st.current_function # <<>> /\ line # ""
                /\ ~MatchFunctionHeader(line)
        THEN [st EXCEPT !.current_function = <<FunctionLine(@[1], line)>>]
        ELSE IF StartsWith(line, "key projct configuration:")
        THEN [st EXCEPT !.current_section = "config",
                        !.m.config_section = line \o "\n"]
        ELSE IF st.current_section = "config"
        THEN [st EXCEPT !.m.config_section = @ \o line \o "\n"]
        ELSE st

\* The while loop over the lines, from line i on.
RECURSIVE ParseLines(_, _, _)
ParseLines(st, lines, i) ==
    IF i > Len(lines) THEN st
    ELSE ParseLines(ParseLine(st, lines[i]), lines, i + 1)

\* The scanner's state when the loop ends.
ScanContent(m, content) ==
    ParseLines([m |-> m, current_section |-> "none", current_function |-> <<>>],
               Split(content, "\n"), 1)

\* A faulty variant of ParseContent: the function being accumulated when the
\* loop ends is not saved.
ParseContentNoFlush(m, content) == ScanContent(m, content).m

\* _parse_content(content) on manager m: the loop, then the last function saved.
ParseContent(m, content) ==
    LET st == ScanContent(m, content)
    IN  IF st.current_function # <<>>
        THEN CommitFunction(st.m, st.current_function[1])
        ELSE st.m

(***************************************************************************)
(* _generate_content                                                       *)
(***************************************************************************)

\* int(fid.replace('F', '')): the numeric prefix of a function id.
FunctionNumber(fid) == ToInt(RemoveF(fid))

\* sorted(self.files.keys())
SortedFileIndices(m) ==
    LET keys == DictKeyList(m.files)
        s    == SortedByRank([i \in 1..Len(keys) |-> [rank |-> keys[i], key |-> keys[i]]])
    IN  [i \in 1..Len(s) |-> s[i].key]

\* A faulty variant of SortedFunctionIds: the ids in insertion order.
SortedFunctionIdsUnsorted(m) == DictKeyList(m.functions)

\* sorted(self.functions.keys(), key=lambda x: int(x.replace('F', '')))
SortedFunctionIds(m) ==
    LET keys == DictKeyList(m.functions)
        s    == SortedByRank([i \in 1..Len(keys) |->
                                 [rank |-> FunctionNumber(keys[i]), key |-> keys[i]]])
    IN  [i \in 1..Len(s) |-> s[i].key]

\* The lines of the files section, one per file.
FileLines(m) ==
    LET idx == SortedFileIndices(m)
    IN  [i \in 1..Len(idx) |-> ToStr(idx[i]) \o ". " \o DictGet(m.files, idx[i]).path]

\* A faulty variant of FunctionBlock: the first entry of files_involved is
\* written as a line of its own.
FunctionBlockWithReference(func) ==
    IF func.files_involved = <<>>
    THEN <<func.id \o ". " \o func.name, func.description, "Implementation:",
           func.implementation, "">>
    ELSE <<func.id \o ". " \o func.name, func.description, "Implementation:",
           "File " \o ToStr(func.files_involved[1]), func.implementation, "">>

\* The five lines of one function block.
FunctionBlock(func) ==
    <<func.id \o ". " \o func.name, func.description, "Implementation:",
      func.implementation, "">>

RECURSIVE FunctionBlocks(_, _, _)
FunctionBlocks(m, ids, i) ==
    IF i > Len(ids) THEN <<>>
    ELSE FunctionBlock(DictGet(m.functions, ids[i])) \o FunctionBlocks(m, ids, i + 1)

\* _generate_content(): the text of the document.
GenerateContent(m) ==
    Join(<<"Project:" \o m.project_name,
           "Description:" \o m.project_description,
           "technology:" \o m.technology,
           "PROJECT FILES INDEX:">>
         \o FileLines(m)
         \o <<"", "All functions:">>
         \o FunctionBlocks(m, SortedFunctionIds(m), 1)
         \o <<Strip(m.config_section)>>)

(***************************************************************************)
(* The mutation API.  Each operation is an operator from the manager (and  *)
(* the call's arguments) to the manager after the call and the value       *)
(* returned.  An optional argument is <<>> for None (omitted) and <<v>>    *)
(* for a supplied value v.                                                 *)
(***************************************************************************)

Result(m, ret) == [m |-> m, ret |-> ret]

\* Python's truth value of an optional string: None and '' are false.
Truthy(arg) == arg # <<>> /\ arg[1] # ""

\* [int(fid.replace('F', '')) for fid in self.functions.keys()]
ExistingIds(m) == {FunctionNumber(fid) : fid \in DictKeys(m.functions)}

\* A faulty variant of NewFunctionId: the id numbered by the count of functions.
NewFunctionIdByCount(m) == ToStr(Len(m.functions) + 1) \o "F"

\* str(max(existing_ids) + 1) + 'F' if existing_ids else '1F'
NewFunctionId(m) ==
    IF ExistingIds(m) # {} THEN ToStr(Max(ExistingIds(m)) + 1) \o "F" ELSE "1F"

\* A faulty variant of add_function: the references that are no file index are
\* left out instead of warned about.
add_function_filtered(m, name, description, implementation, files_involved) ==
    LET new_id == NewFunctionId(m)
    IN  Result([m EXCEPT !.functions =
                    DictSet(@, new_id,
                            Function(new_id, name, description, implementation,
                                     SelectSeq(files_involved,
                                               LAMBDA x : DictHas(m.files, x))))],
               new_id)

add_function(m, name, description, implementation, files_involved) ==
    LET new_id == NewFunctionId(m)
    IN  Result([m EXCEPT !.functions =
                    DictSet(@, new_id,
                            Function(new_id, name, description, implementation,
                                     files_involved))],
               new_id)

\* A faulty variant of edit_function: description tested with "is not None", as
\* edit_file tests it.
edit_function_not_none(m, function_id, name, description, implementation, files_involved) ==
    IF ~DictHas(m.functions, function_id)
    THEN Result(m, FALSE)
    ELSE LET func == DictGet(m.functions, function_id)
             new  == [func EXCEPT
                        !.name = IF Truthy(name) THEN name[1] ELSE @,
                        !.description = IF description # <<>> THEN description[1] ELSE @,
                        !.implementation =
                            IF Truthy(implementation) THEN implementation[1] ELSE @,
                        !.files_involved =
                            IF files_involved # <<>> THEN files_involved[1] ELSE @]
         IN  Result([m EXCEPT !.functions = DictSet(@, function_id, new)], TRUE)

\* A faulty variant of edit_function: files_involved defaulted to the empty list
\* when omitted, as add_function defaults it.
edit_function_resets_files(m, function_id, name, description, implementation, files_involved) ==
    IF ~DictHas(m.functions, function_id)
    THEN Result(m, FALSE)
    ELSE LET func == DictGet(m.functions, function_id)
             new  == [func EXCEPT
                        !.name = IF Truthy(name) THEN name[1] ELSE @,
                        !.description = IF Truthy(description) THEN description[1] ELSE @,
                        !.implementation =
                            IF Truthy(implementation) THEN implementation[1] ELSE @,
                        !.files_involved =
                            IF files_involved # <<>> THEN files_involved[1] ELSE <<>>]
         IN  Result([m EXCEPT !.functions = DictSet(@, function_id, new)], TRUE)

edit_function(m, function_id, name, description, implementation, files_involved) ==
    IF ~DictHas(m.functions, function_id)
    THEN Result(m, FALSE)
    ELSE LET func == DictGet(m.functions, function_id)
             new  == [func EXCEPT
                        !.name = IF Truthy(name) THEN name[1] ELSE @,
                        !.description = IF Truthy(description) THEN description[1] ELSE @,
                        !.implementation =
                            IF Truthy(implementation) THEN implementation[1] ELSE @,
                        !.files_involved =
                            IF files_involved # <<>> THEN files_involved[1] ELSE @]
         IN  Result([m EXCEPT !.functions = DictSet(@, function_id, new)], TRUE)

delete_function(m, function_id) ==
    IF ~DictHas(m.functions, function_id)
    THEN Result(m, FALSE)
    ELSE Result([m EXCEPT !.functions = DictDel(@, function_id)], TRUE)

\* A faulty variant of NewFileIndex: the index numbered by the count of files.
NewFileIndexByCount(m) == Len(m.files) + 1

\* A faulty variant of NewFileIndex: the lowest index no file has.
NewFileIndexLowestFree(m) ==
    CHOOSE k \in 1..(Len(m.files) + 1) :
        /\ ~DictHas(m.files, k)
        /\ \A j \in 1..(k - 1) : DictHas(m.files, j)

\* max(self.files.keys()) + 1 if self.files else 1
NewFileIndex(m) ==
    IF Len(m.files) # 0 THEN Max(DictKeys(m.files)) + 1 ELSE 1

add_file(m, path, description) ==
    LET new_index == NewFileIndex(m)
    IN  Result([m EXCEPT !.files =
                    DictSet(@, new_index, ProjectFile(new_index, path, description))],
               new_index)

\* A faulty variant of edit_file: description tested for truth, as path is.
edit_file_truthy(m, index, path, description) ==
    IF ~DictHas(m.files, index)
    THEN Result(m, FALSE)
    ELSE LET file_obj == DictGet(m.files, index)
             new == [file_obj EXCEPT
                       !.path = IF Truthy(path) THEN path[1] ELSE @,
                       !.description = IF Truthy(description) THEN description[1] ELSE @]
         IN  Result([m EXCEPT !.files = DictSet(@, index, new)], TRUE)

edit_file(m, index, path, description) ==
    IF ~DictHas(m.files, index)
    THEN Result(m, FALSE)
    ELSE LET file_obj == DictGet(m.files, index)
             new == [file_obj EXCEPT
                       !.path = IF Truthy(path) THEN path[1] ELSE @,
                       !.description = IF description # <<>> THEN description[1] ELSE @]
         IN  Result([m EXCEPT !.files = DictSet(@, index, new)], TRUE)

\* x in xs
InList(xs, x) == \E i \in 1..Len(xs) : xs[i] = x

\* A faulty variant of ListRemove: every occurrence of x removed.
ListRemoveAll(xs, x) == SelectSeq(xs, LAMBDA y : y # x)

\* xs.remove(x), for x in xs: the list without the first occurrence of x.
ListRemove(xs, x) ==
    LET k == CHOOSE i \in 1..Len(xs) :
                 xs[i] = x /\ \A j \in 1..(i - 1) : xs[j] # x
    IN  SubSeq(xs, 1, k - 1) \o SubSeq(xs, k + 1, Len(xs))

\* The loop of delete_file over self.functions.values().
RemoveFileReferences(functions, index) ==
    [i \in 1..Len(functions) |->
        IF InList(functions[i].val.files_involved, index)
        THEN [functions[i] EXCEPT !.val.files_involved = ListRemove(@, index)]
        ELSE functions[i]]

\* A faulty variant of delete_file: the references removed before the index is
\* looked up.
delete_file_unchecked(m, index) ==
    IF ~DictHas(m.files, index)
    THEN Result([m EXCEPT !.functions = RemoveFileReferences(@, index)], FALSE)
    ELSE Result([m EXCEPT !.functions = RemoveFileReferences(@, index),
                          !.files = DictDel(@, index)],
                TRUE)

delete_file(m, index) ==
    IF ~DictHas(m.files, index)
    THEN Result(m, FALSE)
    ELSE Result([m EXCEPT !.functions = RemoveFileReferences(@, index),
                          !.files = DictDel(@, index)],
                TRUE)

\* A faulty variant of SortedFiles: the entries in insertion order.
SortedFilesUnsorted(m) == m.files

\* sorted(self.files.items()): the entries in ascending order of their key.
SortedFiles(m) ==
    LET idx == SortedFileIndices(m)
    IN  [i \in 1..Len(idx) |-> [key |-> idx[i], val |-> DictGet(m.files, idx[i])]]

\* A faulty variant of MapIndex: the references left as they were.
MapIndexUnchanged(sorted, idx) == idx

\* index_mapping.get(idx, idx), index_mapping taking the i-th sorted key to i.
MapIndex(sorted, idx) ==
    IF \E i \in 1..Len(sorted) : sorted[i].key = idx
    THEN CHOOSE i \in 1..Len(sorted) : sorted[i].key = idx
    ELSE idx

reorder_files(m) ==
    LET sorted_files == SortedFiles(m)
        new_files == [i \in 1..Len(sorted_files) |->
                         [key |-> i, val |-> [sorted_files[i].val EXCEPT !.index = i]]]
        new_functions ==
            [i \in 1..Len(m.functions) |->
                [m.functions[i] EXCEPT !.val.files_involved =
                    [j \in 1..Len(@) |-> MapIndex(sorted_files, @[j])]]]
    IN  Result([m EXCEPT !.files = new_files, !.functions = new_functions], "None")

(***************************************************************************)
(* validate_project.  An issue string is modelled by the values it         *)
(* interpolates: the function id and file index of a dangling reference,   *)
(* the set of the duplicated paths.                                        *)
(***************************************************************************)

\* The issues of one function: one per files_involved entry that is no file.
RECURSIVE ReferenceIssues(_, _, _)
ReferenceIssues(m, func, j) ==
    IF j > Len(func.files_involved) THEN <<>>
    ELSE (IF ~DictHas(m.files, func.files_involved[j])
          THEN <<[kind |-> "reference", function |-> func.id,
                  file |-> func.files_involved[j]]>>
          ELSE <<>>)
         \o ReferenceIssues(m, func, j + 1)

RECURSIVE AllReferenceIssues(_, _)
AllReferenceIssues(m, i) ==
    IF i > Len(m.functions) THEN <<>>
    ELSE ReferenceIssues(m, m.functions[i].val, 1) \o AllReferenceIssues(m, i + 1)

\* set(duplicates): the paths that paths.count(path) > 1.
DuplicatePaths(m) ==
    {m.files[i].val.path : i \in {i \in 1..Len(m.files) :
        \E j \in 1..Len(m.files) : j # i /\ m.files[j].val.path = m.files[i].val.path}}

\* A faulty variant of ValidationIssues: one duplicate-path issue for every
\* element of the duplicates list instead of one for the list.
ValidationIssuesPerPath(m) ==
    AllReferenceIssues(m, 1)
    \o LET duplicates ==
               SelectSeq(m.files,
                         LAMBDA e : \E j \in 1..Len(m.files) :
                                       /\ m.files[j].key # e.key
                                       /\ m.files[j].val.path = e.val.path)
       IN  [i \in 1..Len(duplicates) |->
               [kind |-> "duplicates", paths |-> {duplicates[i].val.path}]]

\* The issues list validate_project builds.
ValidationIssues(m) ==
    AllReferenceIssues(m, 1)
    \o (IF DuplicatePaths(m) # {}
        THEN <<[kind |-> "duplicates", paths |-> DuplicatePaths(m)]>>
        ELSE <<>>)

validate_project(m) == Result(m, Len(ValidationIssues(m)) = 0)

(***************************************************************************)
(* load_project and save_project.  The text file is <<>> when it cannot be *)
(* opened and <<content>> otherwise.                                       *)
(***************************************************************************)

\* A faulty variant of load_project: the manager is cleared before the file is
\* opened.
load_project_cleared(m, file) ==
    IF file = <<>> THEN Result(EmptyManager, "None")
    ELSE Result(ParseContent(EmptyManager, file[1]), "None")

\* A faulty variant of load_project: the document read replaces the model.
load_project_replacing(m, file) ==
    IF file = <<>> THEN Result(m, "None")
    ELSE Result(ParseContent(EmptyManager, file[1]), "None")

\* load_project(): FileNotFoundError is caught and the manager is left alone.
load_project(m, file) ==
    IF file = <<>> THEN Result(m, "None")
    ELSE Result(ParseContent(m, file[1]), "None")

\* save_project(): the file after the call; a failure to open it for writing is
\* caught (writable = FALSE) and leaves it as it was.
save_project(m, file, writable) ==
    IF writable THEN <<GenerateContent(m)>> ELSE file

(***************************************************************************)
(* The state machine: one manager, the text file it was constructed on,    *)
(* and the calls of its public methods, as main()'s menu loop makes them.  *)
(***************************************************************************)

VARIABLES
    project_name,         \* self.project_name
    project_description,  \* self.project_description
    technology,           \* self.technology
    files,                \* self.files: index -> ProjectFile
    functions,            \* self.functions: function_id -> Function
    config_section,       \* self.config_section
    disk,                 \* the file at self.text_file_path
    op,                   \* the last call: its name, arguments and return value
    pre,                  \* the manager before the last call
    steps,                \* the number of calls (in the chat: user requests) made
    freed,                \* the index a delete_file of the highest index freed
    chat,                 \* the chat manager's conversation_context and loop
    tree                  \* the files of the project other than the text file

vars == <<project_name, project_description, technology, files, functions,
          config_section, disk, op, pre, steps, freed, chat, tree>>

\* The manager as a record of its fields.
Manager ==
    [project_name |-> project_name, project_description |-> project_description,
     technology |-> technology, files |-> files, functions |-> functions,
     config_section |-> config_section]

\* The manager becomes m.
Becomes(m) ==
    /\ project_name' = m.project_name
    /\ project_description' = m.project_description
    /\ technology' = m.technology
    /\ files' = m.files
    /\ functions' = m.functions
    /\ config_section' = m.config_section

\* The length of the behaviours explored.
MaxSteps == 3

\* self.project_file of the chat manager: the path of the text file.
project_file == "project-file.txt"

\* The other paths the changes of a conversation name.
TreePaths == {"a.js", "bak/project-file.txt"}

\* None of them exists.
EmptyTree == [p \in TreePaths |-> <<>>]

\* No conversation: conversation_context is None.  In a conversation, status is
\* the place of the loop ("loop" while at its head, "ended" after it), iteration
\* its counter, calls the number of calls of _call_ai, action what
\* _parse_ai_response returned last
\* ("failed" when _call_ai gave nothing), proposed the proposed_changes, and
\* applied, log, before what _apply_changes did: whether it ran, the changes it
\* attempted with their results, and the files before it.
IdleChat ==
    [status |-> "idle", iteration |-> 0, calls |-> 0,
     action |-> "none", proposed |-> <<>>, applied |-> FALSE, log |-> <<>>,
     before |-> [tree |-> EmptyTree, disk |-> <<>>]]

\* The index freed, after a call: the index that the call, a delete_file of the
\* highest index, removed; kept while the calls that follow leave the indices of
\* the files alone, up to and including the first add_file; 0 otherwise.
FreedAfter(call, r) ==
    IF /\ call.name = "delete_file"
       /\ r.ret = TRUE
       /\ call.index = Max(DictKeys(files))
    THEN call.index
    ELSE IF call.name = "add_file"
    THEN (IF op.name = "add_file" THEN 0 ELSE freed)
    ELSE IF op.name = "add_file" \/ DictKeys(r.m.files) # DictKeys(files)
    THEN 0
    ELSE freed

\* One call: the manager becomes r.m, the call is recorded with what it returned.
Call(call, r) ==
    /\ steps < MaxSteps
    /\ Becomes(r.m)
    /\ op' = [call EXCEPT !.ret = r.ret]
    /\ pre' = Manager
    /\ steps' = steps + 1
    /\ freed' = FreedAfter(call, r)
    /\ UNCHANGED <<chat, tree>>

(***************************************************************************)
(* The documents the text file may hold when the manager is constructed.   *)
(***************************************************************************)

\* The layout of the format: header, files, functions, config.
DocCanonical ==
    Join(<<"Project:Demo", "Description:A demo", "technology:python",
           "PROJECT FILES INDEX:", "1. a.js", "2. b.js", "",
           "All functions:", "1F. LOGIN", "Signs the user in", "Implementation:",
           "File 1 reads File 2", "", "key projct configuration:", "debug=1">>)

\* Gaps in the file indices, a function listing a file twice, a dangling reference.
DocGaps ==
    Join(<<"PROJECT FILES INDEX:", "2. a.js", "5. b.js", "All functions:",
           "1F. f", "d", "File 2 and File 2", "File 5",
           "3F. g", "e", "File 5 File 9">>)

\* Two files of one path, ids out of order and with a leading zero, no dangling
\* reference.
DocDuplicates ==
    Join(<<"PROJECT FILES INDEX:", "1. a.js", "2. a.js", "All functions:",
           "02F. h", "d", "File 1 File 1", "1F. f", "d", "File 1 File 2 File 1">>)

\* Files out of order and with a gap, a function listing them, no dangling
\* reference and no two files of one path.
DocSparse ==
    Join(<<"PROJECT FILES INDEX:", "3. b.js", "1. a.js", "All functions:",
           "1F. f", "d", "File 3 File 1 File 3">>)

\* A config section and files out of order, no function.
DocConfigFirst ==
    Join(<<"key projct configuration:", "k=v", "PROJECT FILES INDEX:",
           "3. b.js", "1. a.js">>)

\* A config section before the functions section.
DocConfigThenFunction ==
    Join(<<"key projct configuration:", "All functions:", "1F. f">>)

SeedDocs ==
    {DocCanonical, DocGaps, DocDuplicates, DocSparse, DocConfigFirst,
     DocConfigThenFunction}

(***************************************************************************)
(* The arguments of the calls.                                             *)
(***************************************************************************)

\* name, description and implementation of add_function.
FunctionTexts ==
    {[name |-> "f", description |-> "d", implementation |-> "x"],
     [name |-> "g", description |-> "e", implementation |-> "  if y:\n\n    z"]}

\* files_involved of add_function.
RefLists == {<<>>, <<1, 1>>, <<1, 2>>}

\* function_id of edit_function and delete_function: each id present, and one
\* that no model explored holds.
FunctionIdInputs == DictKeys(functions) \cup {"9F"}

\* index of edit_file and delete_file: each index present, and one that no model
\* explored holds (the dangling reference of DocGaps).
FileIndexInputs == DictKeys(files) \cup {9}

\* name, description, implementation, files_involved of edit_function.
EditFunctionInputs ==
    {[name |-> <<"N">>, description |-> <<>>, implementation |-> <<>>, files_involved |-> <<>>],
     [name |-> <<"">>, description |-> <<>>, implementation |-> <<>>, files_involved |-> <<>>],
     [name |-> <<>>, description |-> <<"D">>, implementation |-> <<>>, files_involved |-> <<>>],
     [name |-> <<>>, description |-> <<"">>, implementation |-> <<>>, files_involved |-> <<>>],
     [name |-> <<>>, description |-> <<>>, implementation |-> <<"I">>, files_involved |-> <<>>],
     [name |-> <<>>, description |-> <<>>, implementation |-> <<"">>, files_involved |-> <<>>],
     [name |-> <<"N">>, description |-> <<"D">>, implementation |-> <<"I">>,
      files_involved |-> <<<<2>>>>],
     [name |-> <<>>, description |-> <<>>, implementation |-> <<>>,
      files_involved |-> <<<<1, 1>>>>]}

\* path and description of add_file.
AddFileInputs ==
    {[path |-> "a.js", description |-> ""],
     [path |-> "a.js", description |-> "doc"],
     [path |-> "c.js", description |-> ""]}

\* path and description of edit_file.
EditFileInputs ==
    {[path |-> <<"c.js">>, description |-> <<>>],
     [path |-> <<>>, description |-> <<"doc">>],
     [path |-> <<>>, description |-> <<"">>],
     [path |-> <<"">>, description |-> <<"">>]}

(***************************************************************************)
(* Init: a manager as __init__ leaves it, on a file that holds one of the  *)
(* documents or does not exist.                                            *)
(***************************************************************************)

Init ==
    /\ project_name = ""
    /\ project_description = ""
    /\ technology = ""
    /\ files = <<>>
    /\ functions = <<>>
    /\ config_section = ""
    /\ disk \in {<<>>} \cup {<<d>> : d \in SeedDocs}
    /\ op = [name |-> "init", ret |-> "None"]
    /\ pre = EmptyManager
    /\ steps = 0
    /\ freed = 0
    /\ chat = IdleChat
    /\ tree = EmptyTree

LoadProject ==
    /\ Call([name |-> "load_project", opened |-> disk # <<>>, ret |-> "None"],
            load_project(Manager, disk))
    /\ UNCHANGED disk

SaveProject ==
    \E writable \in BOOLEAN :
        /\ Call([name |-> "save_project", writable |-> writable, ret |-> "None"],
                Result(Manager, "None"))
        /\ disk' = save_project(Manager, disk, writable)

AddFunction ==
    \E t \in FunctionTexts, refs \in RefLists :
        /\ Call([name |-> "add_function", text |-> t, files_involved |-> refs,
                 ret |-> "None"],
                add_function(Manager, t.name, t.description, t.implementation, refs))
        /\ UNCHANGED disk

EditFunction ==
    \E function_id \in FunctionIdInputs, a \in EditFunctionInputs :
        /\ Call([name |-> "edit_function", function_id |-> function_id, args |-> a,
                 ret |-> "None"],
                edit_function(Manager, function_id, a.name, a.description,
                              a.implementation, a.files_involved))
        /\ UNCHANGED disk

DeleteFunction ==
    \E function_id \in FunctionIdInputs :
        /\ Call([name |-> "delete_function", function_id |-> function_id,
                 ret |-> "None"],
                delete_function(Manager, function_id))
        /\ UNCHANGED disk

AddFile ==
    \E a \in AddFileInputs :
        /\ Call([name |-> "add_file", args |-> a, ret |-> "None"],
                add_file(Manager, a.path, a.description))
        /\ UNCHANGED disk

EditFile ==
    \E index \in FileIndexInputs, a \in EditFileInputs :
        /\ Call([name |-> "edit_file", index |-> index, args |-> a, ret |-> "None"],
                edit_file(Manager, index, a.path, a.description))
        /\ UNCHANGED disk

DeleteFile ==
    \E index \in FileIndexInputs :
        /\ Call([name |-> "delete_file", index |-> index, ret |-> "None"],
                delete_file(Manager, index))
        /\ UNCHANGED disk

ReorderFiles ==
    /\ Call([name |-> "reorder_files", ret |-> "None"], reorder_files(Manager))
    /\ UNCHANGED disk

ValidateProject ==
    /\ Call([name |-> "validate_project", issues |-> ValidationIssues(Manager),
             ret |-> "None"],
            validate_project(Manager))
    /\ UNCHANGED disk

\* The calls of the mutation API.
Mutate ==
    \/ AddFunction
    \/ EditFunction
    \/ DeleteFunction
    \/ AddFile
    \/ EditFile
    \/ DeleteFile
    \/ ReorderFiles

Next ==
    \/ LoadProject
    \/ SaveProject
    \/ Mutate
    \/ ValidateProject

Spec == Init /\ [][Next]_vars

\* The mutation API alone, on a manager that never loads a document.
SpecApi == Init /\ [][Mutate]_vars

(***************************************************************************)
(* The document engine on hand-edited documents: the file holds one of the *)
(* documents above, or one of them with a line inserted at some place, and *)
(* the manager loads it, validates it and saves it.                        *)
(***************************************************************************)

\* Two pairs of files of one path, two function ids of one number, a dangling
\* reference.
DocTies ==
    Join(<<"PROJECT FILES INDEX:", "1. a.js", "2. a.js", "3. b.js", "4. b.js",
           "All functions:", "01F. g", "d", "File 7", "1F. f", "e", "File 1">>)

\* A function whose description has not been read when the document ends.
DocOpenFunction ==
    Join(<<"Project:Demo", "PROJECT FILES INDEX:", "1. a.js", "All functions:",
           "1F. f">>)

BaseDocs == SeedDocs \cup {DocTies, DocOpenFunction}

\* The lines inserted: header lines and the trigger line of the config section.
ProbeLines ==
    {"Project:Other", "  Description: Other text ", "technology:other",
     "key projct configuration: late"}

\* lines with line p put after its first i lines.
InsertLine(lines, i, p) ==
    SubSeq(lines, 1, i) \o <<p>> \o SubSeq(lines, i + 1, Len(lines))

ProbeDocs ==
    BaseDocs \cup
    UNION {{Join(InsertLine(Split(b, "\n"), i, p)) :
               i \in 0..Len(Split(b, "\n")), p \in ProbeLines} : b \in BaseDocs}

InitDocs ==
    /\ project_name = ""
    /\ project_description = ""
    /\ technology = ""
    /\ files = <<>>
    /\ functions = <<>>
    /\ config_section = ""
    /\ disk \in {<<d>> : d \in ProbeDocs}
    /\ op = [name |-> "init", ret |-> "None"]
    /\ pre = EmptyManager
    /\ steps = 0
    /\ freed = 0
    /\ chat = IdleChat
    /\ tree = EmptyTree

NextDocs ==
    \/ LoadProject
    \/ SaveProject
    \/ ValidateProject

SpecDocs == InitDocs /\ [][NextDocs]_vars

(***************************************************************************)
(* The file collection alone: the manager loads a document, adds and       *)
(* deletes files and validates.                                            *)
(***************************************************************************)

\* Dense indices, a function listing the highest index twice.
DocReuse ==
    Join(<<"PROJECT FILES INDEX:", "1. a.js", "2. b.js", "All functions:",
           "1F. f", "d", "File 2 and File 2", "File 1">>)

InitFiles ==
    /\ project_name = ""
    /\ project_description = ""
    /\ technology = ""
    /\ files = <<>>
    /\ functions = <<>>
    /\ config_section = ""
    /\ disk \in {<<d>> : d \in SeedDocs \cup {DocReuse}}
    /\ op = [name |-> "init", ret |-> "None"]
    /\ pre = EmptyManager
    /\ steps = 0
    /\ freed = 0
    /\ chat = IdleChat
    /\ tree = EmptyTree

NextFiles ==
    \/ LoadProject
    \/ AddFile
    \/ DeleteFile
    \/ ValidateProject

SpecFiles == InitFiles /\ [][NextFiles]_vars

(***************************************************************************)
(* The chat manager (project_chat.py): one user request at a time, the     *)
(* conversation loop with the AI, and the application of the changes it    *)
(* proposes to the files of the project.                                   *)
(***************************************************************************)

\* max_iterations of _ai_conversation_loop.
max_iterations == 10

\* p in s
Contains(s, p) ==
    \E i \in 1..(Len(s) - Len(p) + 1) : Slice(s, i, i + Len(p) - 1) = p

\* The file at path in the files w: <<>> when it does not exist.
FileAt(w, path) == IF path = project_file THEN w.disk ELSE w.tree[path]

\* The files w with the file at path become file.
WithFile(w, path, file) ==
    IF path = project_file THEN [w EXCEPT !.disk = file]
    ELSE [w EXCEPT !.tree[path] = file]

\* change.content or ""
ContentOrEmpty(content) ==
    IF content # <<>> /\ content[1] # "" THEN content[1] ELSE ""

\* What the operating system does to one change: it goes through, the call
\* that opens or unlinks the file raises, or the file is opened (and so
\* emptied) and the write raises.
Outcomes == {"ok", "error", "truncated"}

\* The body of the loop of _apply_changes on one change: the files after it and
\* what happened.
ApplyChange(w, change, outcome) ==
    IF change.type = "delete"
    THEN IF FileAt(w, change.file_path) = <<>>
         THEN [world |-> w, result |-> "missing"]
         ELSE IF outcome = "ok"
         THEN [world |-> WithFile(w, change.file_path, <<>>), result |-> "applied"]
         ELSE [world |-> w, result |-> "error"]
    ELSE IF outcome = "ok"
    THEN [world |-> WithFile(w, change.file_path, <<ContentOrEmpty(change.content)>>),
          result |-> "applied"]
    ELSE IF outcome = "truncated"
    THEN [world |-> WithFile(w, change.file_path, <<"">>), result |-> "truncated"]
    ELSE [world |-> w, result |-> "error"]

\* A faulty variant of ApplyChangesFrom: the loop ends at the first change that
\* raises.
RECURSIVE ApplyChangesUntilError(_, _, _, _)
ApplyChangesUntilError(acc, changes, outcomes, i) ==
    IF i > Len(changes) THEN acc
    ELSE LET r    == ApplyChange(acc.world, changes[i], outcomes[i])
             next == [world |-> r.world,
                      log |-> Append(acc.log, [change |-> i, result |-> r.result])]
         IN  IF r.result \in {"error", "truncated"} THEN next
             ELSE ApplyChangesUntilError(next, changes, outcomes, i + 1)

\* The loop of _apply_changes from change i on: an exception is caught and the
\* loop goes on.
RECURSIVE ApplyChangesFrom(_, _, _, _)
ApplyChangesFrom(acc, changes, outcomes, i) ==
    IF i > Len(changes) THEN acc
    ELSE LET r == ApplyChange(acc.world, changes[i], outcomes[i])
         IN  ApplyChangesFrom(
                 [world |-> r.world,
                  log |-> Append(acc.log, [change |-> i, result |-> r.result])],
                 changes, outcomes, i + 1)

\* any("project-file.txt" in change.file_path for change in changes)
RefreshNeeded(changes) ==
    \E i \in 1..Len(changes) : Contains(changes[i].file_path, "project-file.txt")

\* A faulty variant of LoopContinues: the bound included.
LoopContinuesInclusive(iteration) == iteration <= max_iterations

\* The condition of the while loop.
LoopContinues(iteration) == iteration < max_iterations

\* _parse_ai_response(response) on conversation c: the conversation after it,
\* with the action returned (the texts of conversation_history, which decide
\* nothing, are left out).  The response is its text and, for a proposal,
\* the changes its JSON parses to (<<>> when it does not parse).
parse_ai_response(c, response) ==
    LET text  == Strip(response.text)
        heard == c
    IN  IF StartsWith(text, "REQUEST_FUNCTION_DETAILS:")
        THEN [heard EXCEPT !.action = "request_function_details"]
        ELSE IF StartsWith(text, "PROPOSE_CHANGES:")
        THEN IF response.json # <<>>
             THEN [heard EXCEPT !.proposed = response.json[1],
                                !.action = "propose_changes"]
             ELSE [heard EXCEPT !.action = "clarification_needed"]
        ELSE IF StartsWith(text, "CLARIFICATION_NEEDED:")
        THEN [heard EXCEPT !.action = "clarification_needed"]
        ELSE IF StartsWith(text, "COMPLETE:")
        THEN [heard EXCEPT !.action = "complete"]
        ELSE [heard EXCEPT !.action = "clarification_needed"]

\* The changes the AI proposes.
Change(type, file_path, content) ==
    [type |-> type, file_path |-> file_path, content |-> content]

ProposedLists ==
    {<<>>,
     <<Change("create", "a.js", <<"v1">>), Change("edit", "a.js", <<"v2">>)>>,
     <<Change("delete", "a.js", <<>>), Change("delete", "a.js", <<>>)>>,
     <<Change("edit", project_file, <<DocReuse>>), Change("create", "a.js", <<>>)>>,
     <<Change("delete", project_file, <<>>), Change("create", "a.js", <<"v1">>)>>,
     <<Change("edit", "a.js", <<"v1">>), Change("edit", project_file, <<DocGaps>>),
       Change("create", "bak/project-file.txt", <<"v1">>)>>}

\* What _call_ai returns: <<>> for None, or the text of the response.
AiResponses ==
    {<<>>,
     <<[text |-> "", json |-> <<>>]>>,
     <<[text |-> "REQUEST_FUNCTION_DETAILS: [1F]", json |-> <<>>]>>,
     <<[text |-> "CLARIFICATION_NEEDED: which file?", json |-> <<>>]>>,
     <<[text |-> " COMPLETE: nothing to do\n", json |-> <<>>]>>,
     <<[text |-> "I think it is complete:", json |-> <<>>]>>,
     <<[text |-> "PROPOSE_CHANGES: {", json |-> <<>>]>>}
    \cup {<<[text |-> "PROPOSE_CHANGES: {...}", json |-> <<changes>>]>> :
              changes \in ProposedLists}

\* initialize_project() has loaded the project file.
InitChat ==
    /\ disk \in {<<DocReuse>>, <<DocGaps>>}
    /\ project_name = ParseContent(EmptyManager, disk[1]).project_name
    /\ project_description = ParseContent(EmptyManager, disk[1]).project_description
    /\ technology = ParseContent(EmptyManager, disk[1]).technology
    /\ files = ParseContent(EmptyManager, disk[1]).files
    /\ functions = ParseContent(EmptyManager, disk[1]).functions
    /\ config_section = ParseContent(EmptyManager, disk[1]).config_section
    /\ op = [name |-> "load_project", opened |-> TRUE, ret |-> "None"]
    /\ pre = EmptyManager
    /\ steps = 0
    /\ freed = 0
    /\ chat = IdleChat
    /\ tree \in {EmptyTree, [EmptyTree EXCEPT !["a.js"] = <<"v0">>]}

\* The number of user requests of the behaviours explored.
MaxRequests == 1

\* _process_user_request up to the head of the loop: a new ConversationContext.
ProcessUserRequest ==
    /\ chat.status \in {"idle", "ended"}
    /\ steps < MaxRequests
    /\ chat' = [IdleChat EXCEPT
                    !.status = IF LoopContinues(0) THEN "loop" ELSE "ended"]
    /\ steps' = steps + 1
    /\ UNCHANGED <<project_name, project_description, technology, files,
                   functions, config_section, disk, op, pre, freed, tree>>

\* The conversation after the body of the loop ran to a continue.
Continued(c) ==
    [c EXCEPT !.status = IF LoopContinues(c.iteration) THEN "loop" ELSE "ended"]

\* One iteration of the loop of _ai_conversation_loop: the call of the AI, the
\* response parsed, and the action taken, _handle_proposed_changes with the
\* user's answer and _apply_changes included.
AiIteration ==
    /\ chat.status = "loop"
    /\ \E ai_response \in AiResponses :
           LET called == [chat EXCEPT !.iteration = @ + 1, !.calls = @ + 1]
               parsed == parse_ai_response(called, ai_response[1])
               quiet  == UNCHANGED <<project_name, project_description, technology,
                                     files, functions, config_section, disk, op,
                                     pre, steps, freed, tree>>
           IN  IF ai_response = <<>> \/ ai_response[1].text = ""
               THEN /\ chat' = [called EXCEPT !.status = "ended", !.action = "failed"]
                    /\ quiet
               ELSE IF parsed.action \in {"request_function_details",
                                          "clarification_needed"}
               THEN chat' = Continued(parsed) /\ quiet
               ELSE IF parsed.action = "propose_changes"
               THEN IF parsed.proposed = <<>>
                    THEN chat' = [parsed EXCEPT !.status = "ended"] /\ quiet
                    ELSE \E choice \in {"y", "n"},
                            outcomes \in [1..Len(parsed.proposed) -> Outcomes] :
                        IF choice = "n"
                        THEN chat' = [parsed EXCEPT !.status = "ended"] /\ quiet
                        ELSE LET before == [tree |-> tree, disk |-> disk]
                                 done   == ApplyChangesFrom(
                                               [world |-> before, log |-> <<>>],
                                               parsed.proposed, outcomes, 1)
                                 call   == [name |-> "load_project",
                                            opened |-> done.world.disk # <<>>,
                                            ret |-> "None"]
                                 r      == load_project(Manager, done.world.disk)
                             IN  /\ chat' = [parsed EXCEPT !.status = "ended",
                                                           !.applied = TRUE,
                                                           !.log = done.log,
                                                           !.before = before]
                                 /\ tree' = done.world.tree
                                 /\ disk' = done.world.disk
                                 /\ steps' = steps
                                 /\ IF RefreshNeeded(parsed.proposed)
                                    THEN /\ Becomes(r.m)
                                         /\ op' = call
                                         /\ pre' = Manager
                                         /\ freed' = FreedAfter(call, r)
                                    ELSE UNCHANGED <<project_name, project_description,
                                                     technology, files, functions,
                                                     config_section, op, pre, freed>>
               ELSE chat' = [parsed EXCEPT !.status = "ended"] /\ quiet

NextChat ==
    \/ ProcessUserRequest
    \/ AiIteration

SpecChat == InitChat /\ [][NextChat]_vars

(***************************************************************************)
(* Vocabulary of the properties.                                           *)
(***************************************************************************)

\* The file collection as index -> path.
FilePaths(m) == {<<m.files[i].key, m.files[i].val.path>> : i \in 1..Len(m.files)}

\* The file collection as the set of (key, ProjectFile).
FileSet(m) == {<<m.files[i].key, m.files[i].val>> : i \in 1..Len(m.files)}

\* The function collection as the set of (key, Function).
FunctionSet(m) == {<<m.functions[i].key, m.functions[i].val>> : i \in 1..Len(m.functions)}

\* The function collection as id -> implementation.
Implementations(m) ==
    {<<m.functions[i].key, m.functions[i].val.id, m.functions[i].val.implementation>> :
        i \in 1..Len(m.functions)}

\* No files_involved entry of any function is missing from the file collection.
NoDangling(m) ==
    \A i \in 1..Len(m.functions) :
        \A j \in 1..Len(m.functions[i].val.files_involved) :
            m.functions[i].val.files_involved[j] \in DictKeys(m.files)

\* The number of occurrences of x in the list xs.
Count(xs, x) == Cardinality({j \in 1..Len(xs) : xs[j] = x})

\* The entries of xs other than x, in their order.
Others(xs, x) == SelectSeq(xs, LAMBDA y : y # x)

\* The model a fresh manager holds after reading what m serializes to.
Reparsed(m) == ParseContent(EmptyManager, GenerateContent(m))

\* The last call was a load of a readable file into a manager as constructed.
FirstParse == op.name = "load_project" /\ op.opened /\ pre = EmptyManager

(***************************************************************************)
(* C1.  Parse/serialize is idempotent after the first parse: a document    *)
(* parsed into an empty model, serialized and parsed into a fresh empty    *)
(* model gives the same file collection (index -> path) and the same       *)
(* function collection (id, name, description, implementation,             *)
(* files_involved) as the first parse.  Violated on the document           *)
(* DocConfigThenFunction: the config blob is written after the function    *)
(* block, and the second parse gives it to the function.                   *)
(***************************************************************************)
C1_ParseSerializeIdempotent ==
    FirstParse =>
        /\ FilePaths(Reparsed(Manager)) = FilePaths(Manager)
        /\ FunctionSet(Reparsed(Manager)) = FunctionSet(Manager)

(***************************************************************************)
(* C2.  For a model built through the mutation API in which every function *)
(* has a one-line description and no implementation line matches a         *)
(* function-header or files-section-header pattern, parsing the serialized *)
(* text into an empty model reproduces every file's index, path and        *)
(* description and every function's id and implementation text.  Violated: *)
(* a file's description is not written, and the parser strips every        *)
(* implementation line and drops the blank ones.                           *)
(***************************************************************************)

\* s is exactly one line: not empty, without a line break.
OneLine(s) == s # "" /\ Find(s, "\n") = 0

\* No line of s matches the function-header or the files-section-header pattern.
NoHeaderLine(s) ==
    \A i \in 1..Len(Split(s, "\n")) :
        /\ ~MatchFunctionHeader(Strip(Split(s, "\n")[i]))
        /\ Strip(Split(s, "\n")[i]) # "PROJECT FILES INDEX:"

RoundTripSafe(m) ==
    \A i \in 1..Len(m.functions) :
        /\ OneLine(m.functions[i].val.description)
        /\ NoHeaderLine(m.functions[i].val.implementation)

C2_RoundTripReproducesModel ==
    RoundTripSafe(Manager) =>
        /\ FileSet(Reparsed(Manager)) = FileSet(Manager)
        /\ Implementations(Reparsed(Manager)) = Implementations(Manager)

(***************************************************************************)
(* C3.  The mutation layer preserves referential integrity: from a model   *)
(* with no dangling reference, a call of add_file, edit_file, delete_file, *)
(* reorder_files, delete_function, or of add_function or edit_function     *)
(* with fileRefs that all exist, leaves a model with no dangling           *)
(* reference.  Violated by delete_file on a file that a function lists     *)
(* twice: one occurrence stays behind.                                     *)
(***************************************************************************)

\* The fileRefs of the last call, if it passed any.
SuppliedRefs ==
    IF op.name = "add_function" THEN op.files_involved
    ELSE IF op.name = "edit_function" /\ op.args.files_involved # <<>>
    THEN op.args.files_involved[1]
    ELSE <<>>

MutationWithExistingRefs ==
    /\ op.name \in {"add_file", "edit_file", "delete_file", "reorder_files",
                    "delete_function", "add_function", "edit_function"}
    /\ \A j \in 1..Len(SuppliedRefs) : SuppliedRefs[j] \in DictKeys(pre.files)

C3_MutationsKeepReferences ==
    (NoDangling(pre) /\ MutationWithExistingRefs) => NoDangling(Manager)

(***************************************************************************)
(* C4.  add_function returns an id whose numeric prefix is strictly        *)
(* greater than that of every function id present before the call,        *)
(* returns "1F" when there was no function, and inserts the new function   *)
(* without overwriting or changing any function that was there.            *)
(***************************************************************************)

\* The digits of an id "<digits>F", read as a number.
NumericPrefix(fid) == ToInt(Slice(fid, 1, DigitRun(fid, 1)))

C4_AddFunctionFreshId ==
    op.name = "add_function" =>
        /\ \A fid \in DictKeys(pre.functions) :
               NumericPrefix(op.ret) > NumericPrefix(fid)
        /\ pre.functions = <<>> => op.ret = "1F"
        /\ op.ret \notin DictKeys(pre.functions)
        /\ Len(functions) = Len(pre.functions) + 1
        /\ \A i \in 1..Len(pre.functions) : functions[i] = pre.functions[i]
        /\ functions[Len(functions)] =
               [key |-> op.ret,
                val |-> [id |-> op.ret, name |-> op.text.name,
                         description |-> op.text.description,
                         implementation |-> op.text.implementation,
                         files_involved |-> op.files_involved]]

\* add_function was called on functions 1F and 3F (a gap) and returned 4F.
C4_Witness ==
    /\ op.name = "add_function"
    /\ DictKeys(pre.functions) = {"1F", "3F"}
    /\ op.ret = "4F"
    /\ DictKeys(functions) = {"1F", "3F", "4F"}

(***************************************************************************)
(* C5.  add_file returns an index strictly greater than every file index   *)
(* present before the call, returns 1 when there was no file, and inserts  *)
(* the new file without overwriting or changing any file entry that was    *)
(* there.                                                                  *)
(***************************************************************************)
C5_AddFileFreshIndex ==
    op.name = "add_file" =>
        /\ \A index \in DictKeys(pre.files) : op.ret > index
        /\ pre.files = <<>> => op.ret = 1
        /\ Len(files) = Len(pre.files) + 1
        /\ \A i \in 1..Len(pre.files) : files[i] = pre.files[i]
        /\ files[Len(files)] =
               [key |-> op.ret,
                val |-> [index |-> op.ret, path |-> op.args.path,
                         description |-> op.args.description]]

\* add_file was called on files 2 and 5 (gaps below and between) and returned 6.
C5_Witness ==
    /\ op.name = "add_file"
    /\ DictKeys(pre.files) = {2, 5}
    /\ op.ret = 6
    /\ DictKeys(files) = {2, 5, 6}

(***************************************************************************)
(* C6.  delete_file(i) on an existing index i removes i from the file      *)
(* collection and removes exactly one occurrence, the first, of i from the *)
(* files_involved of every function that contains i: k >= 1 occurrences    *)
(* before the call are k - 1 after it, and the other entries keep their    *)
(* relative order.                                                         *)
(***************************************************************************)

\* new is old without its first occurrence of x.
FirstOccurrenceRemoved(old, new, x) ==
    \E k \in 1..Len(old) :
        /\ old[k] = x
        /\ \A j \in 1..(k - 1) : old[j] # x
        /\ Len(new) = Len(old) - 1
        /\ \A j \in 1..(k - 1) : new[j] = old[j]
        /\ \A j \in k..Len(new) : new[j] = old[j + 1]

C6_DeleteFileRemovesOneOccurrence ==
    (op.name = "delete_file" /\ op.index \in DictKeys(pre.files)) =>
        /\ op.ret = TRUE
        /\ DictKeys(files) = DictKeys(pre.files) \ {op.index}
        /\ FileSet(Manager) = {e \in FileSet(pre) : e[1] # op.index}
        /\ Len(functions) = Len(pre.functions)
        /\ \A i \in 1..Len(functions) :
               LET old == pre.functions[i].val.files_involved
                   new == functions[i].val.files_involved
               IN  /\ functions[i].key = pre.functions[i].key
                   /\ [functions[i].val EXCEPT !.files_involved = old]
                          = pre.functions[i].val
                   /\ Count(old, op.index) >= 1 =>
                          /\ Count(new, op.index) = Count(old, op.index) - 1
                          /\ Others(new, op.index) = Others(old, op.index)
                          /\ FirstOccurrenceRemoved(old, new, op.index)
                   /\ Count(old, op.index) = 0 => new = old

\* delete_file removed a file that one function listed twice with another entry
\* between: one occurrence is left.
C6_Witness ==
    /\ op.name = "delete_file"
    /\ op.ret = TRUE
    /\ \E i \in 1..Len(functions) :
           /\ Count(pre.functions[i].val.files_involved, op.index) = 2
           /\ Count(functions[i].val.files_involved, op.index) = 1
           /\ Len(functions[i].val.files_involved) = 2

(***************************************************************************)
(* C7.  For a model with no dangling reference, after reorder_files the    *)
(* file indices are exactly 1..N (N the number of files) and               *)
(* validate_project reports zero issues.  As stated it is violated when    *)
(* two files have one path: validate_project reports that too.  Amended:   *)
(* the indices are exactly 1..N and validate_project reports no dangling   *)
(* reference; it reports zero issues exactly when no two files have the    *)
(* same path.                                                              *)
(***************************************************************************)

\* The last call was reorder_files, on a model with no dangling reference.
ReorderedWithoutDangling == op.name = "reorder_files" /\ NoDangling(pre)

\* No two file entries of m have the same path.
DistinctPaths(m) ==
    \A i, j \in 1..Len(m.files) :
        m.files[i].val.path = m.files[j].val.path => i = j

\* The original statement.
C7_ReorderThenValidateClean ==
    ReorderedWithoutDangling =>
        /\ DictKeys(files) = 1..Len(files)
        /\ Len(ValidationIssues(Manager)) = 0

\* The amended statement.
C7_ReorderThenNoDanglingIssue ==
    ReorderedWithoutDangling =>
        /\ DictKeys(files) = 1..Len(files)
        /\ Len(files) = Len(pre.files)
        /\ \A k \in 1..Len(ValidationIssues(Manager)) :
               ValidationIssues(Manager)[k].kind # "reference"
        /\ Len(ValidationIssues(Manager)) = 0 <=> DistinctPaths(pre)
        /\ validate_project(Manager).ret = DistinctPaths(pre)

\* reorder_files renumbered files whose indices were not 1..N, listed by a
\* function, and validation passes.
C7_Witness ==
    /\ ReorderedWithoutDangling
    /\ DictKeys(pre.files) # 1..Len(pre.files)
    /\ \E i \in 1..Len(functions) : Len(functions[i].val.files_involved) >= 2
    /\ validate_project(Manager).ret = TRUE

(***************************************************************************)
(* C8.  reorder_files renumbers the files in ascending order of their old  *)
(* index and rewrites the references consistently: an entry that referred  *)
(* to an existing file refers to the same file (same path and description) *)
(* under its new index, an entry absent from the old file collection keeps *)
(* its value, and every files_involved list keeps its length and order.    *)
(***************************************************************************)

\* The place of old index k among the old indices in ascending order.
RankOf(k) == Cardinality({x \in DictKeys(pre.files) : x <= k})

C8_ReorderRewritesReferences ==
    op.name = "reorder_files" =>
        /\ Len(files) = Len(pre.files)
        /\ DictKeys(files) = 1..Len(files)
        /\ \A i \in 1..Len(files) : files[i].key = i /\ files[i].val.index = i
        /\ \A i \in 1..Len(pre.files) :
               LET old == pre.files[i]
                   new == DictGet(files, RankOf(old.key))
               IN  new.path = old.val.path /\ new.description = old.val.description
        /\ Len(functions) = Len(pre.functions)
        /\ \A i \in 1..Len(functions) :
               LET old == pre.functions[i].val.files_involved
                   new == functions[i].val.files_involved
               IN  /\ functions[i].key = pre.functions[i].key
                   /\ [functions[i].val EXCEPT !.files_involved = old]
                          = pre.functions[i].val
                   /\ Len(new) = Len(old)
                   /\ \A j \in 1..Len(old) :
                          IF old[j] \in DictKeys(pre.files)
                          THEN /\ new[j] = RankOf(old[j])
                               /\ DictGet(files, new[j]).path
                                      = DictGet(pre.files, old[j]).path
                               /\ DictGet(files, new[j]).description
                                      = DictGet(pre.files, old[j]).description
                          ELSE new[j] = old[j]

\* reorder_files renumbered files inserted out of order, and a function's
\* references moved with them.
C8_Witness ==
    /\ op.name = "reorder_files"
    /\ Len(pre.files) >= 2
    /\ pre.files[1].key > pre.files[2].key
    /\ \E i \in 1..Len(functions) :
           /\ Len(functions[i].val.files_involved) >= 2
           /\ functions[i].val.files_involved # pre.functions[i].val.files_involved

\* reorder_files met a dangling reference and left it as it was.
C8_WitnessDangling ==
    /\ op.name = "reorder_files"
    /\ DictKeys(pre.files) = {2, 5}
    /\ \E i \in 1..Len(functions) :
           /\ pre.functions[i].val.files_involved = <<5, 9>>
           /\ functions[i].val.files_involved = <<2, 9>>

(***************************************************************************)
(* C9.  edit_function, delete_function, edit_file and delete_file called   *)
(* with a function id or file index that is not in the model return False  *)
(* and leave the whole model (files, functions, metadata, config blob)     *)
(* unchanged.                                                              *)
(***************************************************************************)

\* The last call named a function id or a file index the model did not hold.
NotFoundCall ==
    \/ /\ op.name \in {"edit_function", "delete_function"}
       /\ op.function_id \notin DictKeys(pre.functions)
    \/ /\ op.name \in {"edit_file", "delete_file"}
       /\ op.index \notin DictKeys(pre.files)

C9_NotFoundIsNoOp == NotFoundCall => (op.ret = FALSE /\ Manager = pre)

\* delete_file was called with an index that is no file but that a function
\* lists, on a model that holds files.
C9_Witness ==
    /\ op.name = "delete_file"
    /\ op.index \notin DictKeys(pre.files)
    /\ \E i \in 1..Len(functions) : InList(functions[i].val.files_involved, op.index)
    /\ Len(files) > 0

(***************************************************************************)
(* C10.  edit_function on an existing id replaces each of name,            *)
(* description and implementation with the supplied value whenever that    *)
(* argument is explicitly supplied, the empty string included, and returns *)
(* True.  As stated it is violated by a supplied empty string, which the   *)
(* code treats as omitted.  Amended: a supplied non-empty string replaces  *)
(* the field, a supplied empty string leaves it unchanged, and the call    *)
(* returns True.                                                           *)
(***************************************************************************)

\* The last call was edit_function on an id the model held.
EditedFunction ==
    op.name = "edit_function" /\ op.function_id \in DictKeys(pre.functions)

OldFunction == DictGet(pre.functions, op.function_id)
NewFunction == DictGet(functions, op.function_id)

\* The original statement.
C10_EditReplacesSupplied ==
    EditedFunction =>
        /\ op.ret = TRUE
        /\ op.args.name # <<>> => NewFunction.name = op.args.name[1]
        /\ op.args.description # <<>> =>
               NewFunction.description = op.args.description[1]
        /\ op.args.implementation # <<>> =>
               NewFunction.implementation = op.args.implementation[1]

\* new is the supplied value if one was supplied and is not empty, else old.
ReplacedIfNonEmpty(arg, old, new) ==
    IF arg # <<>> /\ arg[1] # "" THEN new = arg[1] ELSE new = old

\* The amended statement.
C10_EditReplacesNonEmpty ==
    EditedFunction =>
        /\ op.ret = TRUE
        /\ ReplacedIfNonEmpty(op.args.name, OldFunction.name, NewFunction.name)
        /\ ReplacedIfNonEmpty(op.args.description, OldFunction.description,
                              NewFunction.description)
        /\ ReplacedIfNonEmpty(op.args.implementation, OldFunction.implementation,
                              NewFunction.implementation)

\* edit_function was given an empty description for a function that had one, and
\* the description stayed.
C10_Witness ==
    /\ EditedFunction
    /\ op.args.description = <<"">>
    /\ OldFunction.description # ""
    /\ NewFunction.description = OldFunction.description
    /\ op.ret = TRUE

\* edit_function was given a name, a description and an implementation, and each
\* replaced what the function had.
C10_WitnessReplaced ==
    /\ EditedFunction
    /\ op.args.name = <<"N">> /\ NewFunction.name = "N" /\ OldFunction.name # "N"
    /\ op.args.description = <<"D">> /\ NewFunction.description = "D"
    /\ op.args.implementation = <<"I">> /\ NewFunction.implementation = "I"

(***************************************************************************)
(* C11.  edit_function on an existing id changes only the fields that were *)
(* supplied, on that one function: a field that was not supplied keeps its *)
(* value (with only name supplied: description, implementation and         *)
(* files_involved), every other function, the order of the functions, the  *)
(* file collection, the metadata and the config blob are unchanged.        *)
(***************************************************************************)
C11_EditFunctionFrame ==
    EditedFunction =>
        /\ NewFunction.id = OldFunction.id
        /\ op.args.name = <<>> => NewFunction.name = OldFunction.name
        /\ op.args.description = <<>> =>
               NewFunction.description = OldFunction.description
        /\ op.args.implementation = <<>> =>
               NewFunction.implementation = OldFunction.implementation
        /\ op.args.files_involved = <<>> =>
               NewFunction.files_involved = OldFunction.files_involved
        /\ Len(functions) = Len(pre.functions)
        /\ \A i \in 1..Len(functions) :
               /\ functions[i].key = pre.functions[i].key
               /\ functions[i].key # op.function_id => functions[i] = pre.functions[i]
        /\ files = pre.files
        /\ project_name = pre.project_name
        /\ project_description = pre.project_description
        /\ technology = pre.technology
        /\ config_section = pre.config_section

\* edit_function was given a name only, for a function that lists files and has
\* a description, in a model with another function and with files: the name
\* changed and nothing else.
C11_Witness ==
    /\ EditedFunction
    /\ op.args = [name |-> <<"N">>, description |-> <<>>, implementation |-> <<>>,
                  files_involved |-> <<>>]
    /\ OldFunction.name # "N" /\ NewFunction.name = "N"
    /\ Len(OldFunction.files_involved) >= 2
    /\ OldFunction.description # ""
    /\ Len(functions) >= 2
    /\ Len(files) >= 2

(***************************************************************************)
(* C12.  edit_file on an existing index sets description to the supplied   *)
(* value whenever description is not None, the empty string included, but  *)
(* replaces path only when the supplied path is not empty: an empty or     *)
(* omitted path leaves the stored path unchanged.                          *)
(***************************************************************************)

\* The last call was edit_file on an index the model held.
EditedFile == op.name = "edit_file" /\ op.index \in DictKeys(pre.files)

OldFile == DictGet(pre.files, op.index)
NewFile == DictGet(files, op.index)

C12_EditFileDescriptionAndPath ==
    EditedFile =>
        /\ op.ret = TRUE
        /\ NewFile.description =
               IF op.args.description # <<>> THEN op.args.description[1]
               ELSE OldFile.description
        /\ NewFile.path =
               IF op.args.path # <<>> /\ op.args.path[1] # "" THEN op.args.path[1]
               ELSE OldFile.path
        /\ NewFile.index = OldFile.index

\* edit_file was given an empty path and an empty description for a file that
\* had a description: the description was emptied and the path stayed.
C12_Witness ==
    /\ EditedFile
    /\ op.args.path = <<"">> /\ op.args.description = <<"">>
    /\ OldFile.description # "" /\ NewFile.description = ""
    /\ OldFile.path # "" /\ NewFile.path = OldFile.path

(***************************************************************************)
(* C13.  validate_project produces exactly one dangling-reference issue    *)
(* per distinct (function, index) pair such that the index occurs in the   *)
(* function's files_involved and is no file index: a function that lists   *)
(* the same missing index several times yields one issue for it, and the   *)
(* issue names the function id and the index.  Violated: the code appends  *)
(* an issue for every entry, so a function that lists a missing index      *)
(* twice yields the same issue twice.                                      *)
(***************************************************************************)

\* The number of issues of the last validate_project that name function id fid
\* and file index x as a dangling reference.
ReferenceIssueCount(fid, x) ==
    Cardinality({k \in 1..Len(op.issues) :
                    /\ op.issues[k].kind = "reference"
                    /\ op.issues[k].function = fid
                    /\ op.issues[k].file = x})

\* Function id fid of the model before the last call lists x, and x is no file.
DanglingPair(fid, x) ==
    /\ fid \in DictKeys(pre.functions)
    /\ InList(DictGet(pre.functions, fid).files_involved, x)
    /\ x \notin DictKeys(pre.files)

C13_OneIssuePerDanglingPair ==
    op.name = "validate_project" =>
        /\ \A i \in 1..Len(pre.functions) :
               \A j \in 1..Len(pre.functions[i].val.files_involved) :
                   LET fid == pre.functions[i].key
                       x   == pre.functions[i].val.files_involved[j]
                   IN  DanglingPair(fid, x) => ReferenceIssueCount(fid, x) = 1
        /\ \A k \in 1..Len(op.issues) :
               op.issues[k].kind = "reference" =>
                   DanglingPair(op.issues[k].function, op.issues[k].file)

(***************************************************************************)
(* C15.  load_project on a path that cannot be opened reports the error    *)
(* without raising (it returns as any other call does) and leaves files,   *)
(* functions, metadata and the config blob exactly as they were before the *)
(* call.                                                                   *)
(***************************************************************************)

\* The last call was load_project and the file could not be opened.
FailedLoad == op.name = "load_project" /\ ~op.opened

C15_FailedLoadLeavesModel ==
    FailedLoad => (op.ret = "None" /\ Manager = pre /\ disk = <<>>)

\* load_project failed on a manager that the mutation API had filled.
C15_Witness ==
    /\ FailedLoad
    /\ Len(files) > 0
    /\ Len(functions) > 0

(***************************************************************************)
(* C16.  A dangling file reference never blocks a mutation: add_function   *)
(* stores the supplied fileRefs exactly as given (same order, duplicates   *)
(* kept, indices absent from the file collection kept), and edit_function  *)
(* with fileRefs supplied replaces the function's whole files_involved     *)
(* with exactly the supplied list, neither merged with nor filtered        *)
(* against the old list or the file collection.                            *)
(***************************************************************************)
C16_ReferencesStoredAsGiven ==
    /\ op.name = "add_function" =>
           /\ op.ret \in DictKeys(functions)
           /\ DictGet(functions, op.ret).files_involved = op.files_involved
    /\ (EditedFunction /\ op.args.files_involved # <<>>) =>
           /\ op.ret = TRUE
           /\ NewFunction.files_involved = op.args.files_involved[1]

\* add_function was given the same index twice, an index that is no file of a
\* model that holds files, and stored the list as given.
C16_Witness ==
    /\ op.name = "add_function"
    /\ op.files_involved = <<1, 1>>
    /\ Len(pre.files) > 0 /\ 1 \notin DictKeys(pre.files)
    /\ DictGet(functions, op.ret).files_involved = <<1, 1>>

\* edit_function was given a list of an index that is no file, for a function
\* that listed other files, and the list replaced the old one.
C16_WitnessEdit ==
    /\ EditedFunction
    /\ op.args.files_involved = << <<1, 1>> >>
    /\ 1 \notin DictKeys(pre.files)
    /\ Len(OldFunction.files_involved) = 3
    /\ NewFunction.files_involved = <<1, 1>>

(***************************************************************************)
(* C14.  validate_project returns True if and only if no function has a    *)
(* files_involved entry missing from the file collection and no path is    *)
(* held by two distinct file indices; when several paths are duplicated it *)
(* adds exactly one duplicate-path issue in total; and it leaves the model *)
(* unchanged.                                                              *)
(***************************************************************************)

\* The number of duplicate-path issues of the last validate_project.
DuplicateIssueCount ==
    Cardinality({k \in 1..Len(op.issues) : op.issues[k].kind = "duplicates"})

\* The paths that two distinct file indices of m hold.
SharedPaths(m) ==
    {m.files[i].val.path : i \in {i \in 1..Len(m.files) :
        \E j \in 1..Len(m.files) :
            /\ m.files[j].key # m.files[i].key
            /\ m.files[j].val.path = m.files[i].val.path}}

C14_ValidatePassesIffClean ==
    op.name = "validate_project" =>
        /\ op.ret = (NoDangling(pre) /\ DistinctPaths(pre))
        /\ DuplicateIssueCount = (IF DistinctPaths(pre) THEN 0 ELSE 1)
        /\ \A k \in 1..Len(op.issues) :
               op.issues[k].kind = "duplicates" =>
                   op.issues[k].paths = SharedPaths(pre)
        /\ Manager = pre

\* validate_project was called on a model with two duplicated paths and a
\* dangling reference: it failed, with one duplicate-path issue.
C14_Witness ==
    /\ op.name = "validate_project"
    /\ Cardinality(SharedPaths(pre)) = 2
    /\ ~NoDangling(pre)
    /\ op.ret = FALSE
    /\ DuplicateIssueCount = 1
    /\ Manager = pre

\* validate_project passed, on a model with files and functions that list them.
C14_WitnessPassed ==
    /\ op.name = "validate_project"
    /\ op.ret = TRUE
    /\ Len(pre.files) >= 2
    /\ \E i \in 1..Len(pre.functions) : Len(pre.functions[i].val.files_involved) >= 2

(***************************************************************************)
(* C17.  _generate_content emits the file lines in strictly ascending      *)
(* order of index and the function blocks in ascending order of the        *)
(* numeric prefix of their id, whatever the order in which files and       *)
(* functions were inserted: two models of equal contents and different     *)
(* insertion histories serialize to the same text.  Violated by two        *)
(* function ids of one number ("01F" and "1F"): sorted() is stable, so the *)
(* two blocks are written in the order the functions were inserted.        *)
(* Amended: the file lines are in strictly ascending order of index and    *)
(* the function blocks in ascending order of numeric prefix, blocks of     *)
(* equal numeric prefix in the order of insertion; two models of equal     *)
(* contents serialize to the same text when no two function ids have the   *)
(* same numeric prefix.                                                    *)
(***************************************************************************)

\* The last call was save_project and it wrote the file.
Saved == op.name = "save_project" /\ op.writable

\* The lines of the text written.
SavedLines == Split(disk[1], "\n")

\* The index of the i-th file line written (the file lines follow the three
\* header lines and the heading of the files section).
SavedFileIndex(i) == ToInt(Split1(SavedLines[4 + i], ".")[1])

\* The lines written for the functions: those after the file lines, the blank
\* line and the heading of the functions section, and before the config blob.
SavedFunctionLines ==
    SubSeq(SavedLines, 4 + Len(pre.files) + 3,
           Len(SavedLines) - Len(Split(Strip(pre.config_section), "\n")))

\* The ids of the function blocks written, in the order of the text.
SavedFunctionIds ==
    LET headers == SelectSeq(SavedFunctionLines, MatchFunctionHeader)
    IN  [i \in 1..Len(headers) |-> Split1(headers[i], ".")[1]]

\* xs back to front.
Reverse(xs) == [i \in 1..Len(xs) |-> xs[Len(xs) + 1 - i]]

\* The model of the contents of m, inserted in the opposite order.
InsertedBackwards(m) ==
    [m EXCEPT !.files = Reverse(@), !.functions = Reverse(@)]

\* The original statement.
C17_SerializationOrder ==
    Saved =>
        /\ {SavedFileIndex(i) : i \in 1..Len(pre.files)} = DictKeys(pre.files)
        /\ \A i, j \in 1..Len(pre.files) :
               i < j => SavedFileIndex(i) < SavedFileIndex(j)
        /\ {SavedFunctionIds[i] : i \in 1..Len(SavedFunctionIds)}
               = DictKeys(pre.functions)
        /\ \A i, j \in 1..Len(SavedFunctionIds) :
               i < j => NumericPrefix(SavedFunctionIds[i])
                            <= NumericPrefix(SavedFunctionIds[j])
        /\ GenerateContent(InsertedBackwards(pre)) = disk[1]

\* No two function ids of m have the same numeric prefix.
DistinctNumbers(m) ==
    \A i, j \in 1..Len(m.functions) :
        NumericPrefix(m.functions[i].key) = NumericPrefix(m.functions[j].key) => i = j

\* The place of function id fid in the insertion order of m.
InsertionPlace(m, fid) == CHOOSE i \in 1..Len(m.functions) : m.functions[i].key = fid

\* The amended statement.
C17_SerializationOrderUpToTies ==
    Saved =>
        /\ {SavedFileIndex(i) : i \in 1..Len(pre.files)} = DictKeys(pre.files)
        /\ \A i, j \in 1..Len(pre.files) :
               i < j => SavedFileIndex(i) < SavedFileIndex(j)
        /\ {SavedFunctionIds[i] : i \in 1..Len(SavedFunctionIds)}
               = DictKeys(pre.functions)
        /\ Len(SavedFunctionIds) = Len(pre.functions)
        /\ \A i, j \in 1..Len(SavedFunctionIds) :
               i < j =>
                   \/ NumericPrefix(SavedFunctionIds[i])
                          < NumericPrefix(SavedFunctionIds[j])
                   \/ /\ NumericPrefix(SavedFunctionIds[i])
                             = NumericPrefix(SavedFunctionIds[j])
                      /\ InsertionPlace(pre, SavedFunctionIds[i])
                             < InsertionPlace(pre, SavedFunctionIds[j])
        /\ DistinctNumbers(pre) =>
               GenerateContent(InsertedBackwards(pre)) = disk[1]

\* save_project wrote a model whose functions were inserted in descending order
\* of their numbers: the blocks are in ascending order.
C17_Witness ==
    /\ Saved
    /\ Len(pre.functions) = 2
    /\ NumericPrefix(pre.functions[1].key) > NumericPrefix(pre.functions[2].key)
    /\ SavedFunctionIds = <<pre.functions[2].key, pre.functions[1].key>>

\* save_project wrote a model whose files were inserted in descending order of
\* index: the lines are in ascending order.
C17_WitnessFiles ==
    /\ Saved
    /\ Len(pre.files) = 2
    /\ pre.files[1].key > pre.files[2].key
    /\ SavedFileIndex(1) = pre.files[2].key
    /\ SavedFileIndex(2) = pre.files[1].key

(***************************************************************************)
(* Vocabulary of the properties of the scanner.                            *)
(***************************************************************************)

\* The lines of the document the manager loaded.
DocLines == Split(disk[1], "\n")

\* The scanner's states on lines: the i-th is its state before line i, the last
\* its state when the loop ends.
RECURSIVE ScanTrace(_, _, _)
ScanTrace(st, lines, i) ==
    IF i > Len(lines) THEN <<st>>
    ELSE <<st>> \o ScanTrace(ParseLine(st, lines[i]), lines, i + 1)

\* The scanner's state when _parse_content starts on manager m.
ScanStart(m) == [m |-> m, current_section |-> "none", current_function |-> <<>>]

\* The places of the lines that begin with prefix.
LinesWith(lines, prefix) ==
    {i \in 1..Len(lines) : StartsWith(Strip(lines[i]), prefix)}

\* The least element of a non-empty set of numbers.
Min(xs) == CHOOSE x \in xs : \A y \in xs : x <= y

\* What a header line assigns: the rest of the line after the first colon.
HeaderValue(raw) == Strip(Split1(Strip(raw), ":")[2])

(***************************************************************************)
(* C18.  Whenever the scanner meets a line beginning with                  *)
(* "key projct configuration:", in whatever section state and whether or   *)
(* not a function record is being accumulated, it enters CONFIG, and the   *)
(* config blob is that line followed by every later line (blank or not) up *)
(* to the end of input; no later line is routed to files, functions or     *)
(* metadata.  Violated on the layout of the format itself (DocCanonical):  *)
(* while a function is being accumulated the trigger line and the lines    *)
(* after it are added to the function's implementation; in the files       *)
(* section the trigger line is dropped; and after the trigger, header and  *)
(* section lines are still routed.                                         *)
(***************************************************************************)

\* The lines from place k on, each with the line break the scanner adds.
RECURSIVE ConfigFrom(_, _)
ConfigFrom(lines, k) ==
    IF k > Len(lines) THEN ""
    ELSE Strip(lines[k]) \o "\n" \o ConfigFrom(lines, k + 1)

\* m is the model read from the lines before place k, with the lines from place
\* k on as its config blob.
ConfigTakesRest(m, lines, k) ==
    LET head == ParseContent(EmptyManager, Join(SubSeq(lines, 1, k - 1)))
    IN  /\ m.config_section = ConfigFrom(lines, k)
        /\ m.files = head.files
        /\ m.functions = head.functions
        /\ m.project_name = head.project_name
        /\ m.project_description = head.project_description
        /\ m.technology = head.technology

C18_ConfigRunsToEnd ==
    FirstParse =>
        LET lines    == DocLines
            triggers == LinesWith(lines, "key projct configuration:")
        IN  triggers # {} => ConfigTakesRest(Manager, lines, Min(triggers))

(***************************************************************************)
(* C19.  Project metadata is first-wins: when a document has several       *)
(* "Project:", "Description:" or "technology:" lines, after parsing each   *)
(* of project_name, project_description and technology holds the value of  *)
(* the first such line.  Violated: every such line assigns the field, so   *)
(* the last one wins.                                                      *)
(***************************************************************************)

\* The value of the first line that begins with prefix, "" if there is none.
FirstValue(lines, prefix) ==
    LET places == LinesWith(lines, prefix)
    IN  IF places = {} THEN "" ELSE HeaderValue(lines[Min(places)])

C19_MetadataFirstWins ==
    FirstParse =>
        LET lines == DocLines
        IN  /\ project_name = FirstValue(lines, "Project:")
            /\ project_description = FirstValue(lines, "Description:")
            /\ technology = FirstValue(lines, "technology:")

(***************************************************************************)
(* C20.  A line beginning with "Project:", "Description:" or "technology:" *)
(* is handled as a header line in every section state (NONE, FILES,        *)
(* FUNCTIONS with or without a function being accumulated, CONFIG): it     *)
(* sets its metadata field, never changes the section state and is never   *)
(* added to the file collection, to a function's description or            *)
(* implementation, or to the config blob.                                  *)
(***************************************************************************)

\* The line begins, once stripped, with one of the three header prefixes.
IsHeader(raw) ==
    LET line == Strip(raw)
    IN  \/ StartsWith(line, "Project:")
        \/ StartsWith(line, "Description:")
        \/ StartsWith(line, "technology:")

\* From the scanner's state before to its state after, header line raw changed
\* nothing but its metadata field.
HeaderOnly(before, after, raw) ==
    /\ after.current_section = before.current_section
    /\ after.current_function = before.current_function
    /\ after.m.files = before.m.files
    /\ after.m.functions = before.m.functions
    /\ after.m.config_section = before.m.config_section
    /\ after.m.project_name =
           IF StartsWith(Strip(raw), "Project:") THEN HeaderValue(raw)
           ELSE before.m.project_name
    /\ after.m.project_description =
           IF StartsWith(Strip(raw), "Description:") THEN HeaderValue(raw)
           ELSE before.m.project_description
    /\ after.m.technology =
           IF StartsWith(Strip(raw), "technology:") THEN HeaderValue(raw)
           ELSE before.m.technology

\* The model read from lines without the header lines among them.
ParsedWithoutHeaders(lines) ==
    ParseContent(EmptyManager, Join(SelectSeq(lines, LAMBDA l : ~IsHeader(l))))

C20_HeaderLinesInEverySection ==
    FirstParse =>
        LET lines  == DocLines
            trace  == ScanTrace(ScanStart(EmptyManager), lines, 1)
            others == ParsedWithoutHeaders(lines)
        IN  /\ \A i \in 1..Len(lines) :
                   IsHeader(lines[i]) => HeaderOnly(trace[i], trace[i + 1], lines[i])
            /\ trace[Len(lines) + 1].m.files = files
            /\ files = others.files
            /\ functions = others.functions
            /\ config_section = others.config_section

\* A header line was met in section state section, a function being accumulated
\* or not.
HeaderMetIn(section, accumulating) ==
    LET lines == DocLines
        trace == ScanTrace(ScanStart(EmptyManager), lines, 1)
    IN  \E i \in 1..Len(lines) :
            /\ IsHeader(lines[i])
            /\ trace[i].current_section = section
            /\ (trace[i].current_function # <<>>) = accumulating

\* A header line came where the description of a function was expected: it
\* went to the metadata, and the function has no description.
C20_Witness ==
    /\ FirstParse
    /\ disk[1] = DocOpenFunction \o "\nProject:Other"
    /\ HeaderMetIn("functions", TRUE)
    /\ project_name = "Other"
    /\ Len(functions) = 1 /\ functions[1].val.description = ""

\* A header line came in the config section: the config blob has not got it.
C20_WitnessConfig ==
    /\ FirstParse
    /\ technology = "other"
    /\ config_section = "key projct configuration:\nk=v\n"
    /\ HeaderMetIn("config", FALSE)

\* A header line came in the files section, and one before any section.
C20_WitnessFiles ==
    /\ FirstParse
    /\ project_description = "Other text"
    /\ Len(files) = 2
    /\ HeaderMetIn("files", FALSE)
    /\ HeaderMetIn("none", FALSE)

(***************************************************************************)
(* The scanner on documents whose sections are out of order or met twice:  *)
(* the documents above, one where the files section follows a function,    *)
(* and each of them with a line inserted at some place.                    *)
(***************************************************************************)

\* The files section after a function, then the functions section again.
DocFilesAfterFunction ==
    Join(<<"All functions:", "1F. f", "d", "File 1 and File 1",
           "PROJECT FILES INDEX:", "1. a.js", "All functions:", "File 1",
           "2F. g">>)

ScanBaseDocs == BaseDocs \cup {DocFilesAfterFunction}

\* The lines inserted: function headers, the marker, a line of references, file
\* lines, the section lines and lines that look like them, plain text.
ScanProbeLines ==
    {"1F. again", "Implementation:", "File 2 then File 1", "7. z.js",
     "1. over.js", "PROJECT FILES INDEX:", "All functions:",
     "All functions: extra", "stray text", "key projct configuration: late",
     "Project:Other"}

ScanDocs ==
    ScanBaseDocs \cup
    UNION {{Join(InsertLine(Split(b, "\n"), i, p)) :
               i \in 0..Len(Split(b, "\n")), p \in ScanProbeLines} :
           b \in ScanBaseDocs}

InitScan ==
    /\ project_name = ""
    /\ project_description = ""
    /\ technology = ""
    /\ files = <<>>
    /\ functions = <<>>
    /\ config_section = ""
    /\ disk \in {<<d>> : d \in ScanDocs}
    /\ op = [name |-> "init", ret |-> "None"]
    /\ pre = EmptyManager
    /\ steps = 0
    /\ freed = 0
    /\ chat = IdleChat
    /\ tree = EmptyTree

SpecScan == InitScan /\ [][NextDocs]_vars

\* The places of the function headers: the lines matching ^\d+F\. met while the
\* section is FUNCTIONS.
FunctionHeaders(lines, trace) ==
    {i \in 1..Len(lines) :
        /\ trace[i].current_section = "functions"
        /\ MatchFunctionHeader(Strip(lines[i]))}

\* The place of the first function header after place i, the place after the
\* last line if there is none.
NextHeader(headers, lines, i) ==
    Min({j \in headers : j > i} \cup {Len(lines) + 1})

\* The id a function header line gives.
HeaderId(raw) == Strip(Split1(Strip(raw), ".")[1])

\* The function committed from the record cur.
Committed(cur) ==
    Function(cur.id, cur.name, cur.description, Join(cur.implementation),
             cur.files)

(***************************************************************************)
(* C21.  Commit-on-next-header: every line matching ^<digits>F\. met while *)
(* the section is FUNCTIONS starts a new function record, the record being *)
(* accumulated is committed before the new one starts, and the last record *)
(* is committed at end of input: after parsing, the keys of the function   *)
(* collection are exactly the ids of those header lines, for a repeated id *)
(* the last record wins, and the function of each id is the record         *)
(* accumulated from its (last) header up to the next header or the end of  *)
(* input, whatever section changes follow it.                              *)
(***************************************************************************)

C21_CommitOnNextHeader ==
    FirstParse =>
        LET lines   == DocLines
            trace   == ScanTrace(ScanStart(EmptyManager), lines, 1)
            headers == FunctionHeaders(lines, trace)
        IN  /\ DictKeys(functions) = {HeaderId(lines[i]) : i \in headers}
            /\ \A i \in headers :
                   LET before == trace[i]
                       after  == trace[i + 1]
                       record == trace[NextHeader(headers, lines, i)].current_function
                   IN  /\ after.m.functions =
                              IF before.current_function = <<>>
                              THEN before.m.functions
                              ELSE DictSet(before.m.functions,
                                           before.current_function[1].id,
                                           Committed(before.current_function[1]))
                       /\ Len(after.current_function) = 1
                       /\ after.current_function[1].id = HeaderId(lines[i])
                       /\ after.current_function[1].description = ""
                       /\ after.current_function[1].implementation = <<>>
                       /\ after.current_function[1].files = <<>>
                       /\ Len(record) = 1
                       /\ record[1].id = HeaderId(lines[i])
                       /\ (\A j \in headers :
                              j > i => HeaderId(lines[j]) # HeaderId(lines[i]))
                          => DictGet(functions, HeaderId(lines[i])) = Committed(record[1])

\* An id met twice: the first record was committed when the second header
\* came, and the second replaced it when the next header came.
C21_Witness ==
    /\ FirstParse
    /\ disk[1] = Join(InsertLine(Split(DocGaps, "\n"), 8, "1F. again"))
    /\ DictKeys(functions) = {"1F", "3F"}
    /\ DictGet(functions, "1F").name = "again"
    /\ DictGet(functions, "1F").description = ""
    /\ DictGet(functions, "3F").files_involved = <<5, 9>>

\* The files section and the functions section again after a function: the
\* function was committed when the next header came, the last one at the end.
C21_WitnessSections ==
    /\ FirstParse
    /\ disk[1] = DocFilesAfterFunction
    /\ DictKeys(functions) = {"1F", "2F"}
    /\ DictGet(functions, "1F").implementation = "File 1 and File 1\nFile 1"
    /\ DictGet(functions, "2F").name = "g"

(***************************************************************************)
(* C22.  A function's description is captured exactly once: it is the      *)
(* first non-blank line after the function header, met while the section   *)
(* is FUNCTIONS, that is not an "Implementation:" marker, not a header or  *)
(* section-trigger line and not a new function header (even when that line *)
(* follows the marker or begins with "File "), and every later content     *)
(* line of that function goes to the implementation blob and never changes *)
(* the description.  Violated: the trigger line of the config section, met *)
(* while a function has no description, becomes its description (C18), and *)
(* met later it is added to the implementation.                            *)
(***************************************************************************)

\* The line is one of the section triggers.
IsTrigger(raw) ==
    LET line == Strip(raw)
    IN  \/ line = "PROJECT FILES INDEX:"
        \/ line = "All functions:"
        \/ StartsWith(line, "key projct configuration:")

\* The places between header place i and place n of the content lines of the
\* function: met in the functions section, not blank, not the marker, not a
\* header line, not a trigger line.
ContentPlaces(lines, trace, i, n) ==
    {k \in (i + 1)..(n - 1) :
        /\ trace[k].current_section = "functions"
        /\ Strip(lines[k]) # ""
        /\ ~StartsWith(Strip(lines[k]), "Implementation:")
        /\ ~IsHeader(lines[k])
        /\ ~IsTrigger(lines[k])}

C22_DescriptionCapturedOnce ==
    FirstParse =>
        LET lines   == DocLines
            trace   == ScanTrace(ScanStart(EmptyManager), lines, 1)
            headers == FunctionHeaders(lines, trace)
        IN  \A i \in headers :
                LET n       == NextHeader(headers, lines, i)
                    content == ContentPlaces(lines, trace, i, n)
                    record  == trace[n].current_function[1]
                IN  IF content = {}
                    THEN record.description = ""
                    ELSE /\ record.description = Strip(lines[Min(content)])
                         /\ \A k \in content \ {Min(content)} :
                                LET before == trace[k].current_function[1]
                                    after  == trace[k + 1].current_function[1]
                                IN  /\ before.description = record.description
                                    /\ after.description = record.description
                                    /\ after.implementation =
                                           Append(before.implementation,
                                                  Strip(lines[k]))

(***************************************************************************)
(* C23.  For every line beginning with "File " that is processed while a   *)
(* function is being accumulated and after its description has been        *)
(* captured, the integers of all "File <digits>" occurrences on the line   *)
(* are appended to files_involved in left-to-right order without           *)
(* deduplication, and the line itself is appended to the implementation    *)
(* blob; after parsing, files_involved is the concatenation of these       *)
(* per-line sequences in line order.                                       *)
(***************************************************************************)

\* The places between header place i and place n of the lines of references:
\* met in the functions section with the description captured, beginning with
\* "File ".
ReferencePlaces(lines, trace, i, n) ==
    {k \in (i + 1)..(n - 1) :
        /\ trace[k].current_section = "functions"
        /\ trace[k].current_function[1].description # ""
        /\ StartsWith(Strip(lines[k]), "File ")}

\* The references of the lines at the places, in the order of the document.
RECURSIVE ReferencesAt(_, _)
ReferencesAt(lines, places) ==
    IF places = {} THEN <<>>
    ELSE FindFileRefs(Strip(lines[Min(places)]), 1)
             \o ReferencesAt(lines, places \ {Min(places)})

C23_FileLinesGiveReferences ==
    FirstParse =>
        LET lines   == DocLines
            trace   == ScanTrace(ScanStart(EmptyManager), lines, 1)
            headers == FunctionHeaders(lines, trace)
        IN  \A i \in headers :
                LET n      == NextHeader(headers, lines, i)
                    places == ReferencePlaces(lines, trace, i, n)
                    record == trace[n].current_function[1]
                IN  /\ \A k \in places :
                           LET before == trace[k].current_function[1]
                               after  == trace[k + 1].current_function[1]
                           IN  /\ after.files =
                                      before.files \o FindFileRefs(Strip(lines[k]), 1)
                               /\ after.implementation =
                                      Append(before.implementation, Strip(lines[k]))
                    /\ record.files = ReferencesAt(lines, places)
                    /\ (\A j \in headers :
                           j > i => HeaderId(lines[j]) # HeaderId(lines[i]))
                       => DictGet(functions, HeaderId(lines[i])).files_involved
                              = ReferencesAt(lines, places)

\* Two lines of references, the second naming a file twice and the first naming
\* two files in descending order: the list keeps the order and the duplicates.
C23_Witness ==
    /\ FirstParse
    /\ disk[1] = Join(InsertLine(Split(DocGaps, "\n"), 6, "File 2 then File 1"))
    /\ DictGet(functions, "1F").files_involved = <<2, 1, 2, 2, 5>>
    /\ DictGet(functions, "1F").implementation
           = "File 2 then File 1\nFile 2 and File 2\nFile 5"

\* A line of references where the description was expected: it became the
\* description and gave no reference.
C23_WitnessDescription ==
    /\ FirstParse
    /\ disk[1] = Join(InsertLine(Split(DocGaps, "\n"), 5, "File 2 then File 1"))
    /\ DictGet(functions, "1F").description = "File 2 then File 1"
    /\ DictGet(functions, "1F").files_involved = <<2, 2, 5>>

(***************************************************************************)
(* C24.  While the section is FILES, every line matching ^<digits>\.       *)
(* inserts or overwrites the file entry at that integer index with the     *)
(* trimmed remainder as path and an empty description (for a repeated      *)
(* index the last line wins), every other non-blank line that is not a     *)
(* section trigger or header line is dropped without changing any state,   *)
(* and the section stays FILES until a trigger line is met.  Violated: a   *)
(* line that begins with "All functions:" and is not that line, met in the *)
(* files section while a function is being accumulated, is added to the    *)
(* function.                                                               *)
(***************************************************************************)

\* From the scanner's state before to its state after, file line raw set the
\* entry of its index and nothing else.
FileEntrySet(before, after, raw) ==
    LET parts == Split1(Strip(raw), ".")
        index == ToInt(parts[1])
    IN  /\ after = [before EXCEPT !.m.files =
                       DictSet(@, index, ProjectFile(index, Strip(parts[2]), ""))]
        /\ DictGet(after.m.files, index) = ProjectFile(index, Strip(parts[2]), "")
        /\ \A k \in DictKeys(before.m.files) \ {index} :
               DictGet(after.m.files, k) = DictGet(before.m.files, k)
        /\ DictKeys(after.m.files) = DictKeys(before.m.files) \cup {index}

C24_FilesSection ==
    FirstParse =>
        LET lines == DocLines
            trace == ScanTrace(ScanStart(EmptyManager), lines, 1)
        IN  /\ \A i \in 1..Len(lines) :
                   trace[i].current_section = "files" =>
                       /\ MatchFileLine(Strip(lines[i])) =>
                              FileEntrySet(trace[i], trace[i + 1], lines[i])
                       /\ (/\ ~MatchFileLine(Strip(lines[i]))
                           /\ ~IsTrigger(lines[i])
                           /\ ~IsHeader(lines[i])) =>
                              trace[i + 1] = trace[i]
                       /\ ~IsTrigger(lines[i]) =>
                              trace[i + 1].current_section = "files"
            /\ files = trace[Len(lines) + 1].m.files

(***************************************************************************)
(* C26.  load_project is additive on a model that already holds entries:   *)
(* parsing never clears the file or function collections, so after a load  *)
(* a file index or function id that is absent from the document read is    *)
(* still in the model with its old content, and only the indices and ids   *)
(* that occur in the document are overwritten.                             *)
(***************************************************************************)

\* Collection after is collection before with the entries of collection read
\* put over it.
Overlaid(before, read, after) ==
    /\ DictKeys(after) = DictKeys(before) \cup DictKeys(read)
    /\ \A k \in DictKeys(before) \ DictKeys(read) :
           DictGet(after, k) = DictGet(before, k)
    /\ \A k \in DictKeys(read) : DictGet(after, k) = DictGet(read, k)

C26_LoadIsAdditive ==
    (op.name = "load_project" /\ op.opened) =>
        LET read == ParseContent(EmptyManager, disk[1])
        IN  /\ Overlaid(pre.files, read.files, files)
            /\ Overlaid(pre.functions, read.functions, functions)

\* A load into a model holding a file the document has not got and a function
\* the document defines otherwise: the file is kept, the function overwritten.
C26_Witness ==
    /\ op.name = "load_project" /\ op.opened
    /\ LET read == ParseContent(EmptyManager, disk[1])
       IN  /\ \E k \in DictKeys(pre.files) \ DictKeys(read.files) :
                  DictGet(files, k) = DictGet(pre.files, k)
           /\ \E k \in DictKeys(pre.functions) \cap DictKeys(read.functions) :
                  /\ DictGet(pre.functions, k) # DictGet(read.functions, k)
                  /\ DictGet(functions, k) = DictGet(read.functions, k)

\* A load into a model holding a function the document has not got: it is kept.
C26_WitnessFunction ==
    /\ op.name = "load_project" /\ op.opened
    /\ LET read == ParseContent(EmptyManager, disk[1])
       IN  \E k \in DictKeys(pre.functions) \ DictKeys(read.functions) :
               DictGet(functions, k) = DictGet(pre.functions, k)

(***************************************************************************)
(* C28.  reorder_files preserves the dangling-ness of every reference: for *)
(* every function and every position in its files_involved, the entry is a *)
(* dangling reference after reorder_files if and only if it was one        *)
(* before (a reference that pointed at no file never comes to point at a   *)
(* renumbered file).  Violated: an entry that is no index of a file is     *)
(* left as it is, and the renumbering to 1..N may give its number to a     *)
(* file.                                                                   *)
(***************************************************************************)

C28_ReorderPreservesDangling ==
    op.name = "reorder_files" =>
        /\ DictKeys(functions) = DictKeys(pre.functions)
        /\ \A i \in 1..Len(pre.functions) :
               LET old == pre.functions[i].val.files_involved
                   new == DictGet(functions, pre.functions[i].key).files_involved
               IN  /\ Len(new) = Len(old)
                   /\ \A j \in 1..Len(old) :
                          (new[j] \notin DictKeys(files))
                              <=> (old[j] \notin DictKeys(pre.files))

(***************************************************************************)
(* C29.  files_involved is not persisted as its own field: after a save    *)
(* followed by a load into an empty model, each function's files_involved  *)
(* is the sequence of integers of the "File <digits>" occurrences on the   *)
(* lines of its implementation that begin with "File ", whatever list      *)
(* add_function or edit_function had stored before the save: the text      *)
(* written is the text of the same model with every list emptied.          *)
(***************************************************************************)

\* The references of the lines, from line i on, that begin with "File ".
RECURSIVE LineReferences(_, _)
LineReferences(lines, i) ==
    IF i > Len(lines) THEN <<>>
    ELSE (IF StartsWith(lines[i], "File ") THEN FindFileRefs(lines[i], 1) ELSE <<>>)
             \o LineReferences(lines, i + 1)

\* Model m with the files_involved of every function emptied.
WithoutReferences(m) ==
    [m EXCEPT !.functions =
        [i \in 1..Len(@) |-> [@[i] EXCEPT !.val.files_involved = <<>>]]]

C29_ReferencesNotPersisted ==
    Saved =>
        LET loaded == ParseContent(EmptyManager, disk[1])
        IN  /\ \A i \in 1..Len(loaded.functions) :
                   loaded.functions[i].val.files_involved =
                       LineReferences(
                           Split(loaded.functions[i].val.implementation, "\n"), 1)
            /\ disk[1] = GenerateContent(WithoutReferences(pre))

\* A function saved with a list its implementation does not name: the list
\* loaded is empty.
C29_Witness ==
    /\ Saved
    /\ LET loaded == ParseContent(EmptyManager, disk[1])
       IN  \E k \in DictKeys(pre.functions) \cap DictKeys(loaded.functions) :
               /\ DictGet(pre.functions, k).files_involved = <<1, 1>>
               /\ DictGet(loaded.functions, k).files_involved = <<>>
               /\ DictGet(loaded.functions, k).implementation
                      = DictGet(pre.functions, k).implementation

\* A function saved after a file it named was deleted: the list loaded still
\* has the entries removed from the list stored.
C29_WitnessStale ==
    /\ Saved
    /\ LET loaded == ParseContent(EmptyManager, disk[1])
       IN  \E k \in DictKeys(pre.functions) \cap DictKeys(loaded.functions) :
               /\ DictGet(pre.functions, k).files_involved = <<2, 2>>
               /\ DictGet(loaded.functions, k).files_involved = <<2, 2, 5>>

(***************************************************************************)
(* C27.  File indices are reused: after delete_file(m) where m is the      *)
(* current maximum index, the next add_file returns m again, and if some   *)
(* function still lists m (because m occurred more than once in its        *)
(* files_involved before the delete) that stale entry now resolves to the  *)
(* newly added file and validate_project reports no dangling reference for *)
(* it.  Violated when the indices have a gap below m: add_file returns the *)
(* highest remaining index plus one, which is less than m.                 *)
(* Amended: after delete_file(m) where m is the current maximum index, the *)
(* next add_file returns the highest remaining index plus one (1 when no   *)
(* file remains), which is at most m, and is m exactly when m - 1 is the   *)
(* highest remaining index (or m = 1); when it returns m and some function *)
(* still lists m, that stale entry resolves to the newly added file and    *)
(* validate_project reports no dangling reference for it.                  *)
(***************************************************************************)

\* The last call was the first add_file after a delete_file of the highest
\* index, the indices of the files left alone in between.
AddedAfterFreeing == op.name = "add_file" /\ freed # 0

\* The functions that list index x.
Listing(m, x) ==
    {i \in 1..Len(m.functions) : InList(m.functions[i].val.files_involved, x)}

\* Every entry x of a function resolves to the file the last call added, and
\* validation has no dangling reference to report for x.
ResolvesToAdded(x) ==
    /\ DictHas(files, x)
    /\ DictGet(files, x) = ProjectFile(x, op.args.path, op.args.description)
    /\ \A k \in 1..Len(ValidationIssues(Manager)) :
           ValidationIssues(Manager)[k].kind = "reference" =>
               ValidationIssues(Manager)[k].file # x

\* The original statement.
C27_FreedIndexReused ==
    AddedAfterFreeing =>
        /\ op.ret = freed
        /\ Listing(Manager, freed) # {} => ResolvesToAdded(freed)

\* The amended statement.
C27_FreedIndexReusedWhenDense ==
    AddedAfterFreeing =>
        /\ op.ret = (IF pre.files = <<>> THEN 1 ELSE Max(DictKeys(pre.files)) + 1)
        /\ op.ret <= freed
        /\ op.ret = freed <=>
               IF pre.files = <<>> THEN freed = 1
               ELSE Max(DictKeys(pre.files)) = freed - 1
        /\ (op.ret = freed /\ Listing(Manager, freed) # {}) => ResolvesToAdded(freed)

\* The highest index was deleted while a function listed it twice, and the next
\* add_file returned it: the entry left over names the new file.
C27_Witness ==
    /\ AddedAfterFreeing
    /\ op.ret = freed
    /\ Listing(Manager, freed) # {}
    /\ Listing(pre, freed) # {}
    /\ ~DictHas(pre.files, freed)
    /\ DictGet(files, freed).path = op.args.path

\* The highest index was deleted above a gap: the next add_file returned a
\* lower index.
C27_WitnessGap ==
    /\ AddedAfterFreeing
    /\ op.ret < freed
    /\ pre.files # <<>>

(***************************************************************************)
(* C25.  _apply_changes attempts every proposed change exactly once, in    *)
(* list order: a failure while applying one change is caught and reported, *)
(* the changes after it are still attempted, and the effects of changes    *)
(* applied before the failure are not rolled back.  Stated on the files    *)
(* after the call: the log has one entry per change, in list order, and    *)
(* every path holds what the last change that took effect on it left       *)
(* there (what it held before the call when none did), whatever failed     *)
(* before or after that change.                                            *)
(***************************************************************************)

\* The paths of the project.
Paths == TreePaths \cup {project_file}

\* The places of the changes of the last _apply_changes that took effect on
\* path: those that went through, and those whose write raised after the file
\* was opened.
Effective(path) ==
    {i \in 1..Len(chat.log) :
        /\ chat.proposed[chat.log[i].change].file_path = path
        /\ chat.log[i].result \in {"applied", "truncated"}}

\* What the change at place i of the log left at its path.
LeftBy(i) ==
    LET change == chat.proposed[chat.log[i].change]
    IN  IF chat.log[i].result = "truncated" THEN <<"">>
        ELSE IF change.type = "delete" THEN <<>>
        ELSE IF change.content = <<>> THEN <<"">>
        ELSE change.content

C25_ApplyChangesBestEffort ==
    chat.applied =>
        /\ Len(chat.log) = Len(chat.proposed)
        /\ \A i \in 1..Len(chat.log) : chat.log[i].change = i
        /\ \A path \in Paths :
               FileAt([tree |-> tree, disk |-> disk], path) =
                   IF Effective(path) = {} THEN FileAt(chat.before, path)
                   ELSE LeftBy(Max(Effective(path)))

\* Three changes, the second failed: the first was not rolled back and the
\* third was applied.
C25_Witness ==
    /\ chat.applied
    /\ Len(chat.proposed) = 3
    /\ chat.log = <<[change |-> 1, result |-> "applied"],
                    [change |-> 2, result |-> "error"],
                    [change |-> 3, result |-> "applied"]>>
    /\ tree["a.js"] = <<"v1">> /\ chat.before.tree["a.js"] # <<"v1">>
    /\ tree["bak/project-file.txt"] = <<"v1">>
    /\ disk = chat.before.disk

\* The first change failed and the second was applied.
C25_WitnessFirstFailed ==
    /\ chat.applied
    /\ Len(chat.log) = 2
    /\ chat.log[1].result = "error"
    /\ chat.log[2].result = "applied"
    /\ chat.proposed[1].file_path = project_file
    /\ disk = chat.before.disk /\ disk # <<>>
    /\ tree["a.js"] = <<"v1">>

(***************************************************************************)
(* C30.  For one user request, _ai_conversation_loop calls the AI at most  *)
(* 10 times for any sequence of AI responses: it stops at the first failed *)
(* call, the first successfully parsed PROPOSE_CHANGES, the first COMPLETE  *)
(* or an unexpected action, and otherwise (REQUEST_FUNCTION_DETAILS,       *)
(* CLARIFICATION_NEEDED, unrecognised or unparsable responses) continues   *)
(* until the tenth iteration and then ends without applying any change.    *)
(* Stated on every state of a conversation: the loop is at its head only   *)
(* after fewer than 10 calls all of which gave a continuing action, and it *)
(* has ended only on a failed call, a parsed proposal, a COMPLETE, or a    *)
(* continuing action at the tenth call with no change applied.             *)
(***************************************************************************)

\* The actions on which the loop continues.
ContinuingActions == {"request_function_details", "clarification_needed"}

C30_LoopCallsAtMostTen ==
    /\ chat.calls <= 10
    /\ chat.calls = chat.iteration
    /\ chat.status = "loop" =>
           /\ chat.calls < 10
           /\ chat.action \in ContinuingActions \cup {"none"}
           /\ chat.action = "none" <=> chat.calls = 0
           /\ ~chat.applied
    /\ chat.status = "ended" =>
           /\ chat.calls >= 1
           /\ chat.action \in ContinuingActions \cup
                                  {"failed", "propose_changes", "complete"}
           /\ chat.action \in ContinuingActions =>
                  chat.calls = 10 /\ ~chat.applied
    /\ chat.applied =>
           chat.status = "ended" /\ chat.action = "propose_changes"

\* Ten calls, each answered by a continuing response: the loop ended and no
\* change was applied.
C30_Witness ==
    /\ chat.status = "ended"
    /\ chat.calls = 10
    /\ chat.action \in ContinuingActions
    /\ ~chat.applied
    /\ chat.proposed = <<>>

\* The tenth call was answered by a proposal that parsed: it was applied.
C30_WitnessProposed ==
    /\ chat.status = "ended"
    /\ chat.calls = 10
    /\ chat.action = "propose_changes"
    /\ chat.applied

\* The third call failed: the loop ended after three calls.
C30_WitnessFailed ==
    /\ chat.status = "ended"
    /\ chat.calls = 3
    /\ chat.action = "failed"

=============================================================================
